---- MODULE Spec2Model ----
(***************************************************************************)
(* Model of the claude-usage-monitor extension: the browser scraper        *)
(* (ClaudeUsageScraper), the API schema extractor, the data provider's     *)
(* fetch cycle, the extension's fetch triggers and the JSONL aggregator.   *)
(*                                                                         *)
(* Nine specifications share the definitions:                               *)
(*   Spec     - one client calling the scraper's methods in any order,     *)
(*              with the browser world (requests, browser death) around it *)
(*   SpecFetch - ensureLoggedIn() and fetchUsageData() on a scraper that   *)
(*              holds a page, over the answers the page can give           *)
(*   SpecExt  - the extension: startup fetch, auto-refresh timer and the   *)
(*              fetchNow command, each a fetchUsage() run in steps split   *)
(*              at its awaits, and deactivate()                            *)
(*   SpecAgg  - ClaudeDataLoader.loadUsageRecords over bounded file sets   *)
(*   SpecCycle - whole fetchUsage() and updateTokensFromJsonl() runs, one  *)
(*              at a time, with the visibility of the browsers             *)
(*   SpecCalc - the functions that only compute (schema extraction, reset  *)
(*              times, overage amounts, line parsing, directory lookup),   *)
(*              each applied to arguments drawn from bounded sets          *)
(*   SpecTrack - the SessionTracker, its methods called one at a time      *)
(*   SpecTokens - the session file under the updateTokensFromJsonl() runs  *)
(*              and the startNewSession command, in steps split at their   *)
(*              file reads and writes                                      *)
(*   SpecHist - UsageHistory.addDataPoint over a history file              *)
(***************************************************************************)
EXTENDS Integers, Sequences, FiniteSets, TLC

VARIABLES
    scraper,       \* the fields of the one ClaudeUsageScraper instance
    alive,         \* ids of the browser processes that are running
    launched,      \* number of browsers puppeteer.launch has started so far
    outcome,       \* the last operation: its inputs and what it returned or threw
    pc,            \* SpecExt: position of each fetchUsage() invocation
    startupPending, \* SpecExt: the startup setTimeout has not fired yet
    provider,      \* SpecExt: UsageDataProvider fields (isFirstFetch, usageData)
    timerOn,       \* SpecExt: the extension is active, its refresh timer set
    fetches,       \* SpecExt: number of fetchUsage() invocations started
    files,         \* SpecAgg: the JSONL files, each a sequence of lines
    since,         \* SpecAgg: the sinceTimestamp argument (0 = none)
    aggregate,     \* SpecAgg: the result of the last loadUsageRecords call
    headless,      \* SpecCycle: ids of the running browsers that show no window
    arg,           \* SpecCalc: the arguments of the one call under study
    tracker,       \* SpecTrack, SpecTokens: the SessionTracker and its file
    run,           \* SpecTokens: position of each asynchronous tracker user
    history        \* SpecHist: the usage-history file and the data points stored so far

scraperVars == <<scraper, alive, launched, outcome>>
extVars == <<pc, startupPending, provider, timerOn, fetches>>
aggVars == <<files, since, aggregate>>
storeVars == <<tracker, run, history>>
vars == <<scraper, alive, launched, outcome,
          pc, startupPending, provider, timerOn, fetches, files, since, aggregate,
          headless, arg, tracker, run, history>>

(***************************************************************************)
(* Bounds of the model.                                                    *)
(***************************************************************************)
MaxLaunch == 1      \* browsers launched in one behaviour
MaxFetches == 2     \* fetchUsage() invocations in one behaviour (SpecExt)
MaxRecords == 3     \* lines in the JSONL files, all files together (SpecAgg)

(***************************************************************************)
(* Sequences of tokens stand for JavaScript strings: an error message is   *)
(* the sequence of its words, a URL the sequence of its path segments.     *)
(* String.prototype.includes is then "occurs as a contiguous run".         *)
(***************************************************************************)
Includes(s, sub) ==
    \E i \in 0..(Len(s) - Len(sub)) :
        \A j \in 1..Len(sub) : s[i + j] = sub[j]

(***************************************************************************)
(* Browsers.  Id 0 is the browser that may already run on the debug port   *)
(* before the extension does anything; ids 1..MaxLaunch are the browsers   *)
(* this scraper launches.  A handle is what puppeteer.connect or           *)
(* puppeteer.launch returned: the browser and how it was reached.          *)
(***************************************************************************)
ExtBrowser == 0
NoBrowser == [id |-> -1, how |-> "none"]
Handle(b, how) == [id |-> b, how |-> how]
NoPage == -1
NoUrl == <<>>
NoHeaders == [base |-> "none", contentType |-> "none"]

\* constructor(): creditsEndpoint, overageEndpoint and capturedEndpoints are
\* left undefined there, which reads as "not captured" everywhere they are used.
NewScraper ==
    [browser |-> NoBrowser, page |-> NoPage,
     isInitialized |-> FALSE, isConnectedBrowser |-> FALSE,
     apiEndpoint |-> NoUrl, apiHeaders |-> NoHeaders,
     creditsEndpoint |-> NoUrl, overageEndpoint |-> NoUrl,
     intercepting |-> FALSE]

(***************************************************************************)
(* Raw error messages of puppeteer, as the words the code searches.        *)
(***************************************************************************)
ErrAlreadyRunning == <<"The", "browser", "is", "already", "running", "for", "profile">>
ErrNoChrome == <<"Could", "not", "find", "Chrome">>
ErrTargetClosed == <<"Protocol", "error", "Target", "closed">>
ErrNavTimeout == <<"Navigation", "timeout", "of", "30000", "ms", "exceeded">>
ErrNetwork == <<"net::ERR_INTERNET_DISCONNECTED", "at", "https://claude.ai/settings/usage">>

\* messages the scraper itself throws
MsgLocked == <<"Browser", "session", "is", "locked", "by", "another", "process">>
MsgLaunchFailed(m) == <<"Failed", "to", "launch", "browser">> \o m
MsgLoginTimeout == <<"Login", "timeout", "Please", "try", "again", "and", "complete", "the", "login", "process">>
MsgLoadFailed == <<"Failed", "to", "load", "Claude.ai", "Please", "check", "your", "internet", "connection">>
MsgTooLong == <<"Usage", "page", "took", "too", "long", "to", "load", "Please", "try", "again">>
MsgLayout == <<"Could", "not", "find", "usage", "percentage", "on", "settings", "page",
               "The", "page", "layout", "may", "have", "changed">>
MsgProcessFailed == <<"Failed", "to", "process", "API", "response", "data">>

Ok(op) == [op |-> op, kind |-> "ok"]
Thrown(op, m) == [op |-> op, kind |-> "error", msg |-> m]
Returned(op, v) == [op |-> op, kind |-> "value", value |-> v]
NoOutcome == [op |-> "none", kind |-> "none"]

(***************************************************************************)
(* setupRequestInterception(): page.setRequestInterception(true) and the   *)
(* registration of the handlers.  A failure is caught and only logged.     *)
(***************************************************************************)
SetupRequestInterception(s, ok) ==
    IF ok THEN [s EXCEPT !.intercepting = TRUE] ELSE s

(***************************************************************************)
(* tryConnectToExisting(), split at the statements that can throw.         *)
(***************************************************************************)
AttachOutcomes == {"connectFail", "pagesFail", "agentFail", "ok"}
PagesKinds == {"claude", "other", "none"}

\* this.browser = await puppeteer.connect(...)
ConnectOk(s, b) == [s EXCEPT !.browser = Handle(b, "connect")]

\* the page choice: a page on claude.ai, else the first page unless this.page
\* is already set, else a new page
PickPage(s, b, pages) ==
    IF pages = "other" /\ s.page # NoPage
    THEN s
    ELSE [s EXCEPT !.page = b, !.intercepting = FALSE]

\* an attach that forgets to mark the browser as not its own
AttachUnmarked(s) == [s EXCEPT !.isInitialized = TRUE]

AttachDone(s) == [s EXCEPT !.isInitialized = TRUE, !.isConnectedBrowser = TRUE]

\* tryConnectToExisting after the connect, on the browser this.browser holds
\* by then: browser.pages(), the page choice, page.setUserAgent and the
\* interception
AttachRest(s, att, pages, icptOk) ==
    CASE att = "pagesFail" -> [s |-> s, connected |-> FALSE]
      [] att = "agentFail" -> [s |-> PickPage(s, s.browser.id, pages),
                               connected |-> FALSE]
      [] att = "ok" ->
            [s |-> AttachDone(SetupRequestInterception(
                        PickPage(s, s.browser.id, pages), icptOk)),
             connected |-> TRUE]

\* the scraper after tryConnectToExisting and the value it returns
TryConnectToExisting(s, att, b, pages, icptOk) ==
    IF att = "connectFail"
    THEN [s |-> s, connected |-> FALSE]
    ELSE AttachRest(ConnectOk(s, b), att, pages, icptOk)

(***************************************************************************)
(* The launch half of initialize(), split the same way.                    *)
(***************************************************************************)
LaunchOutcomes == {"launchFail", "newPageFail", "agentFail", "ok"}
LaunchErrors == {ErrAlreadyRunning, ErrNoChrome}

\* const headless = forceHeaded ? false : userHeadless
LaunchHeadless(forceHeaded, userHeadless) ==
    IF forceHeaded THEN FALSE ELSE userHeadless

\* this.browser = await puppeteer.launch(launchOptions)
LaunchOk(s, b) == [s EXCEPT !.browser = Handle(b, "launch")]

\* this.page = await this.browser.newPage()
LaunchPage(s, b) == [s EXCEPT !.page = b, !.intercepting = FALSE]

LaunchDone(s) == [s EXCEPT !.isInitialized = TRUE, !.isConnectedBrowser = FALSE]

\* the catch around the launch: the "already running" message is replaced
LaunchError(raw) ==
    IF Includes(raw, <<"already", "running">>)
    THEN Thrown("initialize", MsgLocked)
    ELSE Thrown("initialize", MsgLaunchFailed(raw))

\* the launch half after puppeteer.launch, on the browser this.browser holds
\* by then: browser.newPage(), page.setUserAgent and the interception
LaunchRest(s, lau, icptOk) ==
    CASE lau = "newPageFail" -> [s |-> s, out |-> LaunchError(ErrTargetClosed)]
      [] lau = "agentFail" ->
            [s |-> LaunchPage(s, s.browser.id), out |-> LaunchError(ErrTargetClosed)]
      [] lau = "ok" ->
            [s |-> LaunchDone(SetupRequestInterception(
                        LaunchPage(s, s.browser.id), icptOk)),
             out |-> Ok("initialize")]

\* the scraper after the launch half and what initialize() returns or throws;
\* err is the raw error of a failing puppeteer.launch
LaunchNew(s, lau, err, b, icptOk) ==
    IF lau = "launchFail"
    THEN [s |-> s, out |-> LaunchError(err)]
    ELSE LaunchRest(LaunchOk(s, b), lau, icptOk)

\* the catch of the liveness probe: "Browser was closed, reset state"
ProbeReset(s) ==
    [s EXCEPT !.browser = NoBrowser, !.page = NoPage, !.isInitialized = FALSE]

\* an initialize() without the liveness probe
ProbeSkipped(s) == FALSE

\* if (this.isInitialized && this.browser): the probe is run
ProbeRuns(s) == s.isInitialized /\ s.browser # NoBrowser

(***************************************************************************)
(* close() and reset() as functions of the scraper's fields.               *)
(***************************************************************************)
\* close() calls browser.disconnect() (TRUE) or browser.close() (FALSE)
CloseDisconnects(s) == s.isConnectedBrowser

\* a close() that lets go of the browser and keeps the readiness flag
ClosedStillReady(s) ==
    IF s.browser = NoBrowser THEN s
    ELSE [s EXCEPT !.browser = NoBrowser, !.page = NoPage,
                   !.isConnectedBrowser = FALSE, !.intercepting = FALSE]

Closed(s) ==
    IF s.browser = NoBrowser THEN s
    ELSE [s EXCEPT !.browser = NoBrowser, !.page = NoPage,
                   !.isInitialized = FALSE, !.isConnectedBrowser = FALSE,
                   !.intercepting = FALSE]

ResetDone(s) ==
    [Closed(s) EXCEPT !.apiEndpoint = NoUrl, !.apiHeaders = NoHeaders,
                      !.creditsEndpoint = NoUrl, !.overageEndpoint = NoUrl]

(***************************************************************************)
(* URLs are sequences of path segments.  HasPrefix(seg, p) says that the   *)
(* text of segment seg starts with p, so that url.includes('/usage') is    *)
(* "some segment starts with usage".                                       *)
(***************************************************************************)
PrefixPairs == {<<"usage_export", "usage">>}
HasPrefix(seg, p) == seg = p \/ <<seg, p>> \in PrefixPairs

\* url.includes('/api/organizations/')
IncludesPattern(url) ==
    \E i \in 1..(Len(url) - 2) : url[i] = "api" /\ url[i + 1] = "organizations"

\* url.includes('/api/')
IncludesApi(url) == \E i \in 1..(Len(url) - 1) : url[i] = "api"

\* url.includes(contains) for the three values of API_ENDPOINTS[..].contains
IncludesContains(url, contains) ==
    CASE contains = "/usage" -> \E i \in 1..Len(url) : HasPrefix(url[i], "usage")
      [] contains = "/prepaid/credits" ->
            \E i \in 1..(Len(url) - 1) :
                url[i] = "prepaid" /\ HasPrefix(url[i + 1], "credits")
      [] contains = "/overage_spend_limit" ->
            \E i \in 1..Len(url) : HasPrefix(url[i], "overage_spend_limit")

API_ENDPOINTS ==
    [usage |-> "/usage", prepaidCredits |-> "/prepaid/credits",
     overageSpendLimit |-> "/overage_spend_limit"]

matchesEndpoint(url, contains) == IncludesPattern(url) /\ IncludesContains(url, contains)

Urls ==
    { <<"api", "organizations", "o1", "usage">>,
      <<"api", "organizations", "o1", "usage_export">>,
      <<"api", "organizations", "o1", "prepaid", "credits">>,
      <<"api", "organizations", "o1", "overage_spend_limit">>,
      <<"api", "account">>,
      <<"settings", "usage">> }
HeaderSets == {"h1", "h2"}

(***************************************************************************)
(* The 'request' handler registered by setupRequestInterception().         *)
(***************************************************************************)
CapturedHeaders(hdr) == [base |-> hdr, contentType |-> "application/json"]

CaptureUsage(s, url, hdr) ==
    IF matchesEndpoint(url, API_ENDPOINTS.usage)
    THEN [s EXCEPT !.apiEndpoint = url, !.apiHeaders = CapturedHeaders(hdr)]
    ELSE s

CaptureCredits(s, url) ==
    IF matchesEndpoint(url, API_ENDPOINTS.prepaidCredits)
    THEN [s EXCEPT !.creditsEndpoint = url]
    ELSE s

CaptureOverage(s, url) ==
    IF matchesEndpoint(url, API_ENDPOINTS.overageSpendLimit)
    THEN [s EXCEPT !.overageEndpoint = url]
    ELSE s

\* The handler has no try/catch: request.continue() is its last statement, so
\* it is reached exactly when nothing before it threw.  logThrows is a throw
\* of the debug-channel calls, which run only for URLs that include '/api/'.
HandlerThrows(url, logThrows) == IncludesApi(url) /\ logThrows

OnRequest(s, url, hdr, logThrows) ==
    IF HandlerThrows(url, logThrows)
    THEN [s |-> s, fate |-> "pending"]
    ELSE [s |-> CaptureOverage(CaptureCredits(CaptureUsage(s, url, hdr), url), url),
          fate |-> "continued"]

(***************************************************************************)
(* JSON values, tagged, so that 0, false, null and "absent" stay apart.    *)
(* A timestamp string is JTime(t): an ISO string that denotes the instant  *)
(* t, in seconds.  Any other string is JStr.                               *)
(***************************************************************************)
JUndef == [t |-> "undef"]
JNull == [t |-> "null"]
JNum(n) == [t |-> "num", v |-> n]
\* the number h / 100 when it is not a whole number (0.45 is JFrac(45))
JFrac(h) == [t |-> "num", v |-> h, per |-> 100]
JStr(x) == [t |-> "str", v |-> x]
JBool(b) == [t |-> "bool", v |-> b]
JTime(x) == [t |-> "time", v |-> x]
JObj(f) == [t |-> "obj", f |-> f]
\* a string whose characters matter: v is the sequence of its characters
JText(x) == [t |-> "text", v |-> x]

Nullish(v) == v.t \in {"undef", "null"}
Falsy(v) ==
    \/ Nullish(v)
    \/ v.t = "num" /\ v.v = 0
    \/ v.t = "str" /\ v.v = ""
    \/ v.t = "text" /\ v.v = <<>>
    \/ v.t = "bool" /\ v.v = FALSE

\* current[part]: a missing key, or a property of a primitive, is undefined
Prop(v, k) == IF v.t = "obj" /\ k \in DOMAIN v.f THEN v.f[k] ELSE JUndef

RECURSIVE WalkPath(_, _, _)
WalkPath(current, parts, defaultValue) ==
    IF parts = <<>>
    THEN IF Nullish(current) THEN defaultValue ELSE current
    ELSE IF Nullish(current)
         THEN defaultValue
         ELSE WalkPath(Prop(current, Head(parts)), Tail(parts), defaultValue)

\* the walk ending in `current || defaultValue`, which loses 0 and false
RECURSIVE WalkPathOr(_, _, _)
WalkPathOr(current, parts, defaultValue) ==
    IF parts = <<>>
    THEN IF Falsy(current) THEN defaultValue ELSE current
    ELSE IF Nullish(current)
         THEN defaultValue
         ELSE WalkPathOr(Prop(current, Head(parts)), Tail(parts), defaultValue)

getNestedValueOr(obj, path, defaultValue) ==
    IF Falsy(obj) \/ path = <<>> THEN defaultValue
    ELSE WalkPathOr(obj, path, defaultValue)

\* getNestedValue(obj, path, defaultValue); path is the result of path.split('.')
getNestedValue(obj, path, defaultValue) ==
    IF Falsy(obj) \/ path = <<>> THEN defaultValue
    ELSE WalkPath(obj, path, defaultValue)

Field(path, default) == [path |-> path, default |-> default]

USAGE_API_SCHEMA ==
    [fiveHour |->
        [utilization |-> Field(<<"five_hour", "utilization">>, JNum(0)),
         resetsAt |-> Field(<<"five_hour", "resets_at">>, JNull)],
     sevenDay |->
        [utilization |-> Field(<<"seven_day", "utilization">>, JNum(0)),
         resetsAt |-> Field(<<"seven_day", "resets_at">>, JNull)],
     sevenDaySonnet |->
        [utilization |-> Field(<<"seven_day_sonnet", "utilization">>, JNull),
         resetsAt |-> Field(<<"seven_day_sonnet", "resets_at">>, JNull)],
     sevenDayOpus |->
        [utilization |-> Field(<<"seven_day_opus", "utilization">>, JNull),
         resetsAt |-> Field(<<"seven_day_opus", "resets_at">>, JNull)],
     extraUsage |->
        [value |-> Field(<<"extra_usage">>, JNull)]]

OVERAGE_API_SCHEMA ==
    [isEnabled |-> Field(<<"is_enabled">>, JBool(FALSE)),
     monthlyLimit |-> Field(<<"monthly_credit_limit">>, JNum(0)),
     usedCredits |-> Field(<<"used_credits">>, JNum(0)),
     currency |-> Field(<<"currency">>, JStr("USD")),
     outOfCredits |-> Field(<<"out_of_credits">>, JBool(FALSE))]

\* extractFromSchema(response, schema): an entry with a path is a single
\* field, any other entry is a group of fields
extractFromSchema(response, schema) ==
    [g \in DOMAIN schema |->
        IF "path" \in DOMAIN schema[g]
        THEN getNestedValue(response, schema[g].path, schema[g].default)
        ELSE [f \in DOMAIN schema[g] |->
                getNestedValue(response, schema[g][f].path, schema[g][f].default)]]

(***************************************************************************)
(* Text is a sequence of tokens: D(n) a run of digits with value n, W(x)   *)
(* a word, symbol or blank.  " " is a blank and NL a newline.              *)
(***************************************************************************)
D(n) == [n |-> n, w |-> "#"]
W(x) == [n |-> 0, w |-> x]
IsDigits(tok) == tok.w = "#"
IsWs(tok) == tok.w \in {" ", "NL"}
Unknown == <<W("Unknown")>>
Soon == <<W("Soon")>>

\* Math.floor of a quotient of integers, divisor positive
Floor(a, b) == a \div b

\* calculateResetTime(isoTimestamp) at the clock reading now, in seconds
\* (the code works in milliseconds: 3600 here is 1000 * 60 * 60 there)
RelativeOf(diff) ==
    LET hours == Floor(diff, 3600)
        minutes == Floor(diff % 3600, 60)
    IN  IF diff <= 0 THEN Soon
        ELSE IF hours > 24
             THEN <<D(Floor(hours, 24)), W("d"), W(" "), D(hours % 24), W("h")>>
             ELSE IF hours > 0
                  THEN <<D(hours), W("h"), W(" "), D(minutes), W("m")>>
                  ELSE <<D(minutes), W("m")>>

\* new Date(x) of a number or boolean is a date next to the epoch, long
\* before now; of any other non-timestamp value it is an Invalid Date, whose
\* difference is NaN: every comparison fails and the minutes branch prints NaN
calculateResetTime(iso, now) ==
    IF Falsy(iso) THEN Unknown
    ELSE CASE iso.t = "time" -> RelativeOf(iso.v - now)
           [] iso.t \in {"num", "bool"} -> Soon
           [] OTHER -> <<W("NaN"), W("m")>>

(***************************************************************************)
(* processOverageData(overageData).  The amounts of the payload are        *)
(* numbers of cents; an amount in dollars is kept as whole dollars and     *)
(* hundredths.                                                             *)
(***************************************************************************)
Dollars(cents) == [whole |-> cents \div 100, hundredths |-> cents % 100]

\* Math.floor in the place of Math.round
TruncPercent(usedCents, limitCents) == (100 * usedCents) \div limitCents

\* Math.round((usedDollars / limitDollars) * 100), limit positive
RoundPercent(usedCents, limitCents) ==
    (200 * usedCents + limitCents) \div (2 * limitCents)

processOverageData(overageData) ==
    IF Falsy(overageData) THEN JNull
    ELSE LET extracted == extractFromSchema(overageData, OVERAGE_API_SCHEMA)
         IN  IF Falsy(extracted.isEnabled) THEN JNull
             ELSE JObj([limit |-> Dollars(extracted.monthlyLimit.v),
                        used |-> Dollars(extracted.usedCredits.v),
                        currency |-> extracted.currency,
                        percent |-> IF extracted.monthlyLimit.v > 0
                                    THEN RoundPercent(extracted.usedCredits.v,
                                                      extracted.monthlyLimit.v)
                                    ELSE 0,
                        outOfCredits |-> extracted.outOfCredits])

(***************************************************************************)
(* processApiResponse(apiResponse, creditsData, overageData): the snapshot *)
(* built from an API payload (timestamp left out; now is the clock used by *)
(* calculateResetTime).                                                    *)
(***************************************************************************)
processApiResponse(apiResponse, creditsData, overageData, now) ==
    LET data == extractFromSchema(apiResponse, USAGE_API_SCHEMA)
    IN  [usagePercent |-> data.fiveHour.utilization,
         resetTime |-> calculateResetTime(data.fiveHour.resetsAt, now),
         usagePercentWeek |-> data.sevenDay.utilization,
         resetTimeWeek |-> calculateResetTime(data.sevenDay.resetsAt, now),
         usagePercentSonnet |-> data.sevenDaySonnet.utilization,
         resetTimeSonnet |-> calculateResetTime(data.sevenDaySonnet.resetsAt, now),
         usagePercentOpus |-> data.sevenDayOpus.utilization,
         resetTimeOpus |-> calculateResetTime(data.sevenDayOpus.resetsAt, now),
         extraUsage |-> data.extraUsage.value,
         prepaidCredits |-> IF Nullish(creditsData) THEN JNull ELSE creditsData,
         monthlyCredits |-> processOverageData(overageData),
         rawData |-> apiResponse,
         schemaVersion |-> "Nov 2025"]

(***************************************************************************)
(* The HTML fallback: the two patterns applied to document.body.innerText. *)
(***************************************************************************)
IsUsed(tok) == tok.w \in {"used", "Used", "USED"}
IsResets(tok) == tok.w \in {"Reset", "Resets", "reset", "resets", "RESETS"}
IsIn(tok) == tok.w \in {"in", "In", "IN"}
AllWs(text, a, b) == \A k \in a..b : IsWs(text[k])

\* /(\d+)%\s*used/i matches with its digits at position i
UsageMatchAt(text, i) ==
    /\ IsDigits(text[i])
    /\ i + 2 <= Len(text)
    /\ text[i + 1].w = "%"
    /\ \E j \in (i + 2)..Len(text) : AllWs(text, i + 2, j - 1) /\ IsUsed(text[j])

UsageMatches(text) == {i \in 1..Len(text) : UsageMatchAt(text, i)}

Least(S) == CHOOSE x \in S : \A y \in S : x <= y
Greatest(S) == CHOOSE x \in S : \A y \in S : y <= x

\* usageMatch ? parseInt(usageMatch[1], 10) : null
HtmlUsagePercent(text) ==
    IF UsageMatches(text) = {} THEN JNull
    ELSE JNum(text[Least(UsageMatches(text))].n)

\* first position after position k that holds no blank or newline
AfterWs(text, k) ==
    Least({j \in (k + 1)..(Len(text) + 1) :
                AllWs(text, k + 1, j - 1) /\ (j = Len(text) + 1 \/ ~IsWs(text[j]))})

\* /Resets?\s+in\s+([^\n]+)/i matches with Reset(s) at i and "in" at k; when
\* only blanks follow "in" the capture is blank and the last blank must not
\* be a newline
ResetMatchAt(text, i, k) ==
    /\ IsResets(text[i])
    /\ k = AfterWs(text, i)
    /\ k > i + 1
    /\ k <= Len(text)
    /\ IsIn(text[k])
    /\ LET j == AfterWs(text, k)
       IN  /\ j > k + 1
           /\ j = Len(text) + 1 => (j > k + 2 /\ text[Len(text)].w = " ")

ResetMatches(text) ==
    {i \in 1..Len(text) : \E k \in 1..Len(text) : ResetMatchAt(text, i, k)}

\* resetMatch[1].trim(): from the first non-blank after "in" to the last
\* non-blank before the next newline; empty when the capture is blank
ResetCapture(text, i) ==
    LET k == AfterWs(text, i)
        j == AfterWs(text, k)
        stops == {e \in j..Len(text) : text[e].w = "NL"}
        end == IF stops = {} THEN Len(text) ELSE Least(stops) - 1
        solid == {e \in j..end : ~IsWs(text[e])}
    IN  IF j > Len(text) \/ solid = {} THEN <<>>
        ELSE SubSeq(text, j, Greatest(solid))

\* resetMatch ? resetMatch[1].trim() : null  (the empty text for null: both
\* are falsy where the value is used)
HtmlResetTime(text) ==
    IF ResetMatches(text) = {} THEN <<>>
    ELSE ResetCapture(text, Least(ResetMatches(text)))

\* a fallback that returns whatever the patterns gave
UncheckedSnapshot(text) ==
    Returned("fetchUsageData",
             [usagePercent |-> IF HtmlUsagePercent(text) = JNull THEN JNum(0)
                               ELSE HtmlUsagePercent(text),
              resetTime |-> IF HtmlResetTime(text) = <<>> THEN Unknown
                            ELSE HtmlResetTime(text)])

\* the part of fetchUsageData() after the page text has been read
HtmlFallback(text) ==
    IF HtmlUsagePercent(text) = JNull
    THEN Thrown("fetchUsageData", MsgLayout)
    ELSE Returned("fetchUsageData",
                  [usagePercent |-> HtmlUsagePercent(text),
                   resetTime |-> IF HtmlResetTime(text) = <<>> THEN Unknown
                                 ELSE HtmlResetTime(text)])

(***************************************************************************)
(* ensureLoggedIn(): the navigation, the auth-redirect test, the login     *)
(* wait with its own catch, and the outer catch.                           *)
(***************************************************************************)
ErrNullPage == <<"Cannot", "read", "properties", "of", "null">>
NavOutcomes == {"ok", "timeout", "neterr", "closed"}
NavError(nav) ==
    CASE nav = "timeout" -> ErrNavTimeout
      [] nav = "neterr" -> ErrNetwork
      [] nav = "closed" -> ErrTargetClosed
LoginOutcomes == {"done", "timeout", "closed"}

\* catch (timeoutError) { throw new Error('Login timeout. ...') }: whatever
\* page.waitForFunction threw
LoginWait(login) ==
    IF login = "done" THEN Ok("ensureLoggedIn")
    ELSE Thrown("ensureLoggedIn", MsgLoginTimeout)

\* catch (error) { if (error.message.includes('timeout')) throw new
\* Error('Failed to load Claude.ai. ...'); throw error; }
CatchLoadFailed(out) ==
    IF out.kind = "error" /\ Includes(out.msg, <<"timeout">>)
    THEN Thrown("ensureLoggedIn", MsgLoadFailed)
    ELSE out

\* onAuth: the URL after the navigation includes 'login' or 'auth'
ensureLoggedIn(s, nav, onAuth, login) ==
    CatchLoadFailed(
        IF s.page = NoPage THEN Thrown("ensureLoggedIn", ErrNullPage)
        ELSE IF nav # "ok" THEN Thrown("ensureLoggedIn", NavError(nav))
        ELSE IF onAuth THEN LoginWait(login)
        ELSE Ok("ensureLoggedIn"))

(***************************************************************************)
(* fetchUsageData(): navigation, replay of the captured endpoint inside    *)
(* its own try/catch, HTML fallback, outer catch.                          *)
(***************************************************************************)
ReplayOutcomes == {"ok", "status500", "badJson"}
ErrApiStatus == <<"API", "request", "failed", "500">>
ErrBadJson == <<"Unexpected", "token", "in", "JSON">>
ReplayError(replay) == IF replay = "status500" THEN ErrApiStatus ELSE ErrBadJson

\* a replay that is tried whether or not an endpoint was captured
ReplayAlways(s) == TRUE

\* if (this.apiEndpoint && this.apiHeaders)
ApiCaptured(s) == s.apiEndpoint # NoUrl /\ s.apiHeaders # NoHeaders

\* the try block of the replay: the snapshot it returns, or the error that
\* its catch receives; credits and overage are what their endpoints answer
\* (JNull for a non-ok answer or a caught error) and are asked only when
\* their endpoint was captured
ApiAttempt(s, replay, payload, credits, overage, now) ==
    IF replay = "ok"
    THEN Returned("fetchUsageData",
            processApiResponse(payload,
                IF s.creditsEndpoint # NoUrl THEN credits ELSE JNull,
                IF s.overageEndpoint # NoUrl THEN overage ELSE JNull,
                now))
    ELSE Thrown("fetchUsageData", ReplayError(replay))

\* a catch that passes the error of the replay on
RethrowApiError(apiError, text) == apiError

\* catch (apiError) { ... fall through to HTML scraping fallback }
AfterApiError(apiError, text) == HtmlFallback(text)

\* catch (error) { if (error.message.includes('timeout')) throw new
\* Error('Usage page took too long to load. ...'); throw error; }
CatchTooLong(out) ==
    IF out.kind = "error" /\ Includes(out.msg, <<"timeout">>)
    THEN Thrown("fetchUsageData", MsgTooLong)
    ELSE out

fetchUsageData(s, nav, replay, payload, credits, overage, text, now) ==
    CatchTooLong(
        IF s.page = NoPage THEN Thrown("fetchUsageData", ErrNullPage)
        ELSE IF nav # "ok" THEN Thrown("fetchUsageData", NavError(nav))
        ELSE IF ApiCaptured(s)
             THEN LET api == ApiAttempt(s, replay, payload, credits, overage, now)
                  IN  IF api.kind = "error"
                      THEN AfterApiError(api, text)
                      ELSE api
             ELSE HtmlFallback(text))

(***************************************************************************)
(* ClaudeDataLoader.  A line of a JSONL file either parses to a JSON value *)
(* (json) or does not; a file is the sequence of its non-blank lines.      *)
(***************************************************************************)
\* a validation that only looks for message.usage
HasUsage(record) ==
    /\ ~Falsy(record)
    /\ ~Falsy(Prop(record, "message"))
    /\ ~Falsy(Prop(Prop(record, "message"), "usage"))

\* try { JSON.parse(line) ... if (isValidUsageRecord(record)) push }
isValidUsageRecord(record) ==
    LET message == Prop(record, "message")
        usage == Prop(message, "usage")
    IN  /\ ~Falsy(record)
        /\ ~Falsy(message)
        /\ ~Falsy(usage)
        /\ Prop(usage, "input_tokens").t = "num"
        /\ Prop(usage, "output_tokens").t = "num"
        /\ Prop(message, "model") # JStr("<synthetic>")
        /\ Falsy(Prop(record, "isApiErrorMessage"))

KeptLine(line) == line.json /\ isValidUsageRecord(line.value)

\* a parse whose try encloses the whole loop: the first malformed line ends it
ParseUntilMalformed(file) ==
    LET bad == {i \in 1..Len(file) : ~file[i].json}
        read == IF bad = {} THEN file ELSE SubSeq(file, 1, Least(bad) - 1)
        kept == SelectSeq(read, KeptLine)
    IN  [i \in 1..Len(kept) |-> kept[i].value]

parseJsonlFile(file) ==
    LET kept == SelectSeq(file, KeptLine)
    IN  [i \in 1..Len(kept) |-> kept[i].value]

\* id || ''
IdOrEmpty(v) == IF Falsy(v) THEN <<>> ELSE v.v

\* `${messageId}-${requestId}`
getRecordHash(record) ==
    IdOrEmpty(Prop(Prop(record, "message"), "id")) \o <<"-">>
        \o IdOrEmpty(Prop(record, "requestId"))

\* allRecords.push(...records) for every file, in the order of the files
RECURSIVE AllRecords(_)
AllRecords(fs) ==
    IF fs = <<>> THEN <<>> ELSE parseJsonlFile(Head(fs)) \o AllRecords(Tail(fs))

\* new Date(record.timestamp).getTime() >= sinceTimestamp; the time of a
\* missing or unreadable timestamp is NaN, which is not >= anything
InWindow(record, sinceTimestamp) ==
    LET ts == Prop(record, "timestamp")
    IN  ts.t = "time" /\ ts.v >= sinceTimestamp

\* if (sinceTimestamp) filteredRecords = allRecords.filter(...)
FilteredRecords(records, sinceTimestamp) ==
    IF sinceTimestamp = 0 THEN records
    ELSE LET keep(r) == InWindow(r, sinceTimestamp) IN SelectSeq(records, keep)

\* the deduplication loop over seenHashes
RECURSIVE UniqueFrom(_, _)
UniqueFrom(records, seenHashes) ==
    IF records = <<>> THEN <<>>
    ELSE LET hash == getRecordHash(Head(records))
         IN  IF hash \in seenHashes
             THEN UniqueFrom(Tail(records), seenHashes)
             ELSE <<Head(records)>> \o UniqueFrom(Tail(records), seenHashes \cup {hash})

\* a loop that keeps every record
KeepAllRecords(records) == records

UniqueRecords(records) == UniqueFrom(records, {})

\* usage.<field> || 0
TokensOf(record, field) ==
    LET v == Prop(Prop(Prop(record, "message"), "usage"), field)
    IN  IF Falsy(v) THEN 0 ELSE v.v

\* calculateTotalTokens(usage), on the usage of a record
calculateTotalTokens(record) ==
    TokensOf(record, "input_tokens") + TokensOf(record, "output_tokens")
        + TokensOf(record, "cache_creation_input_tokens")
        + TokensOf(record, "cache_read_input_tokens")

RECURSIVE SumTokens(_, _)
SumTokens(records, field) ==
    IF records = <<>> THEN 0
    ELSE TokensOf(Head(records), field) + SumTokens(Tail(records), field)

loadUsageRecords(fs, sinceTimestamp) ==
    LET uniqueRecords == UniqueRecords(FilteredRecords(AllRecords(fs), sinceTimestamp))
        totalInputTokens == SumTokens(uniqueRecords, "input_tokens")
        totalOutputTokens == SumTokens(uniqueRecords, "output_tokens")
        totalCacheCreationTokens == SumTokens(uniqueRecords, "cache_creation_input_tokens")
        totalCacheReadTokens == SumTokens(uniqueRecords, "cache_read_input_tokens")
    IN  [totalTokens |-> totalInputTokens + totalOutputTokens
                          + totalCacheCreationTokens + totalCacheReadTokens,
         inputTokens |-> totalInputTokens,
         outputTokens |-> totalOutputTokens,
         cacheCreationTokens |-> totalCacheCreationTokens,
         cacheReadTokens |-> totalCacheReadTokens,
         messageCount |-> Len(uniqueRecords),
         records |-> uniqueRecords]

(***************************************************************************)
(* The data directory.  A path is a sequence of tokens; CLAUDE_CONFIG_DIR  *)
(* is a sequence of paths, "," and " " (<<>> when unset or empty).  The    *)
(* disk says what is at each path: nothing, a file, or a directory with    *)
(* the JSONL files found under it.                                         *)
(***************************************************************************)
StandardDir == <<"~/.config/claude/projects">>
LegacyDir == <<"~/.claude/projects">>

\* envPath.split(',')
RECURSIVE SplitAtCommas(_, _)
SplitAtCommas(text, part) ==
    IF text = <<>> THEN <<part>>
    ELSE IF Head(text) = ","
         THEN <<part>> \o SplitAtCommas(Tail(text), <<>>)
         ELSE SplitAtCommas(Tail(text), Append(part, Head(text)))

\* p.trim()
RECURSIVE Trim(_)
Trim(p) ==
    IF p = <<>> THEN p
    ELSE IF Head(p) = " " THEN Trim(Tail(p))
    ELSE IF p[Len(p)] = " " THEN Trim(SubSeq(p, 1, Len(p) - 1))
    ELSE p

\* a list that asks for the override last
ConfigPathsEnvLast(envPath) ==
    <<StandardDir, LegacyDir>>
        \o (IF envPath = <<>> THEN <<>>
            ELSE LET parts == SplitAtCommas(envPath, <<>>)
                 IN  [i \in 1..Len(parts) |-> Trim(parts[i])])

getClaudeConfigPaths(envPath) ==
    (IF envPath = <<>> THEN <<>>
     ELSE LET parts == SplitAtCommas(envPath, <<>>)
          IN  [i \in 1..Len(parts) |-> Trim(parts[i])])
        \o <<StandardDir, LegacyDir>>

NoEntry == [kind |-> "none", files |-> <<>>]
EntryAt(disk, dirPath) == IF dirPath \in DOMAIN disk THEN disk[dirPath] ELSE NoEntry

\* null
NotFound == <<"null">>

\* a lookup that takes any directory of the disk, listed or not
FindAnyDirectory(claudeConfigPaths, disk) ==
    LET dirs == {p \in DOMAIN disk : disk[p].kind = "dir"}
    IN  IF dirs = {} THEN NotFound ELSE CHOOSE p \in dirs : TRUE

\* fs.stat throws for a missing path (caught, next path); a file is not a
\* directory (next path)
findClaudeDataDirectory(claudeConfigPaths, disk) ==
    LET found == {i \in 1..Len(claudeConfigPaths) :
                        EntryAt(disk, claudeConfigPaths[i]).kind = "dir"}
    IN  IF found = {} THEN NotFound ELSE claudeConfigPaths[Least(found)]

\* the aggregate returned when no data directory is found
EmptyAggregate ==
    [totalTokens |-> 0, inputTokens |-> 0, outputTokens |-> 0,
     cacheCreationTokens |-> 0, cacheReadTokens |-> 0,
     messageCount |-> 0, records |-> <<>>]

\* loadUsageRecords(sinceTimestamp) from the lookup on: findJsonlFiles gives
\* the JSONL files under the directory found
loadUsageRecordsIn(claudeConfigPaths, disk, sinceTimestamp) ==
    LET dataDir == findClaudeDataDirectory(claudeConfigPaths, disk)
    IN  IF dataDir = NotFound THEN EmptyAggregate
        ELSE loadUsageRecords(EntryAt(disk, dataDir).files, sinceTimestamp)

(***************************************************************************)
(* initialize(forceHeaded) as one call.  probeAlive: browser.version()     *)
(* answers; att, b, pages: how far the attach gets, the browser found on   *)
(* the debug port and its pages; lau, err, nb: how far the launch gets,    *)
(* the raw launch error and the new browser; icptOk: interception can be   *)
(* enabled.                                                                *)
(***************************************************************************)
initialize(s, probeAlive, att, b, pages, icptOk, lau, err, nb) ==
    IF ProbeRuns(s) /\ probeAlive
    THEN [s |-> s, out |-> Ok("initialize")]
    ELSE LET s1 == IF ProbeRuns(s) THEN ProbeReset(s) ELSE s
             c == TryConnectToExisting(s1, att, b, pages, icptOk)
         IN  IF c.connected
             THEN [s |-> c.s, out |-> Ok("initialize")]
             ELSE LaunchNew(c.s, lau, err, nb, icptOk)

(***************************************************************************)
(* Inputs of the model.                                                    *)
(***************************************************************************)
Now == 1000

MkObj(r) == JObj([k \in {x \in DOMAIN r : r[x] # JUndef} |-> r[k]])

WindowVals ==
    { JUndef,
      JObj([utilization |-> JNum(45)]),
      JObj([utilization |-> JNum(0), resets_at |-> JTime(Now + 9000)]),
      JObj([resets_at |-> JTime(Now + 9000)]) }

Payloads ==
    { MkObj([five_hour |-> a, seven_day |-> b, seven_day_sonnet |-> c]) :
        a \in WindowVals, b \in WindowVals,
        c \in {JUndef, JObj([utilization |-> JNum(30)])} }
    \cup {JNull}

CreditsPayloads == {JNull, JObj([amount |-> JNum(500)])}

OveragePayloads ==
    { JNull,
      JObj([is_enabled |-> JBool(TRUE), monthly_credit_limit |-> JNum(10000),
            used_credits |-> JNum(6300)]),
      JObj([is_enabled |-> JBool(TRUE), monthly_credit_limit |-> JNum(0),
            used_credits |-> JNum(0)]) }

PageTexts ==
    { <<D(62), W("%"), W(" "), W("used")>>,
      <<D(62), W("%"), W(" "), W("used"), W("NL"),
        W("Resets"), W(" "), W("in"), W(" "), D(3), W("h"), W(" "), D(12), W("m")>>,
      <<D(0), W("%"), W("used"), W("NL"), W("Resets"), W(" "), W("in"), W(" "), W(" ")>>,
      <<W("Usage"), W("NL"), W("Plan")>>,
      <<D(62), W(" "), W("%"), W(" "), W("used")>>,
      <<W("Resets"), W(" "), W("in"), W(" "), D(3), W("h")>>,
      <<>> }

(***************************************************************************)
(* Spec: one client calls the scraper's methods; requests are observed and *)
(* browsers start and die around it.  outcome records the last operation:  *)
(* its inputs and what it returned or threw.                               *)
(***************************************************************************)
Did(op, in, res) == [op |-> op, in |-> in, res |-> res]

\* no call is under study
NoArg == [op |-> "none"]

\* the callers of fetchUsage(): the startup setTimeout, the setInterval timer
\* and the claude-usage.fetchNow command
Procs == {"startup", "timer", "command"}

IdleExt ==
    /\ pc = [p \in Procs |-> "idle"]
    /\ startupPending = FALSE
    /\ provider = [isFirstFetch |-> TRUE, usageData |-> JNull]
    /\ timerOn = FALSE
    /\ fetches = 0

\* no loadUsageRecords call has returned yet
NoAggregate == [messageCount |-> -1]

IdleAgg ==
    /\ files = <<>>
    /\ since = 0
    /\ aggregate = NoAggregate

\* SessionTracker: no session object is held; the session file is missing
NoSession == [sessionId |-> <<>>]
NoFile == [missing |-> TRUE]

\* constructor(sessionFilePath): this.currentSession = null; the file is
\* whatever is on the disk
NewTracker(file) == [currentSession |-> NoSession, file |-> file]

\* the asynchronous users of the tracker: the file watcher's and the poll's
\* updateTokensFromJsonl(), and the claude-usage.startNewSession command
TrackProcs == {"watcher", "poll", "command"}
IdleRun == [at |-> "idle", totalTokens |-> 0, data |-> NoFile]

\* no history file, and no data point has been stored
NoHistory == [file |-> NoFile, clock |-> 0]

IdleStore ==
    /\ tracker = NewTracker(NoFile)
    /\ run = [p \in TrackProcs |-> IdleRun]
    /\ history = NoHistory

IdleScraper ==
    /\ scraper = NewScraper
    /\ alive = {}
    /\ launched = 0
    /\ outcome = Did("none", <<>>, NoOutcome)

Init ==
    /\ scraper = NewScraper
    /\ alive \in {{}, {ExtBrowser}}
    /\ launched = 0
    /\ outcome = Did("none", <<>>, NoOutcome)
    /\ IdleExt
    /\ IdleAgg
    /\ headless = {}
    /\ arg = NoArg
    /\ IdleStore

\* the outcome recorded for an initialize() call
InitializeDid(skip, att, lau, hidden, res) ==
    Did("initialize", [skip |-> skip, att |-> att, lau |-> lau, headless |-> hidden],
        res)

\* the probe answers: nothing else happens
InitializeReuses ==
    /\ ProbeRuns(scraper)
    /\ scraper.browser.id \in alive
    /\ LET r == initialize(scraper, TRUE, "connectFail", 0, "none", TRUE,
                           "launchFail", ErrNoChrome, launched + 1)
       IN  /\ scraper' = r.s
           /\ outcome' = InitializeDid(TRUE, "none", "none", FALSE, r.out)
    /\ UNCHANGED <<alive, launched>>

\* the attach succeeds
InitializeAttaches ==
    /\ ~(ProbeRuns(scraper) /\ scraper.browser.id \in alive)
    /\ \E b \in alive, pages \in PagesKinds, icptOk \in BOOLEAN :
        LET r == initialize(scraper, FALSE, "ok", b, pages, icptOk,
                            "launchFail", ErrNoChrome, launched + 1)
        IN  \* page.setUserAgent answers only on a page of a running browser
            /\ r.s.page \in alive
            /\ scraper' = r.s
            /\ outcome' = InitializeDid(FALSE, "ok", "none", FALSE, r.out)
    /\ UNCHANGED <<alive, launched>>

\* the attach fails at att, then the launch fails before a browser runs
InitializeFails ==
    /\ ~(ProbeRuns(scraper) /\ scraper.browser.id \in alive)
    /\ \E att \in AttachOutcomes \ {"ok"}, err \in LaunchErrors :
        \E b \in IF att = "connectFail" THEN {0} ELSE alive,
           pages \in IF att = "agentFail" THEN PagesKinds ELSE {"none"} :
            LET r == initialize(scraper, FALSE, att, b, pages, TRUE,
                                "launchFail", err, launched + 1)
            IN  /\ scraper' = r.s
                /\ outcome' = InitializeDid(FALSE, att, "launchFail", FALSE, r.out)
    /\ UNCHANGED <<alive, launched>>

\* the attach fails at att, then puppeteer.launch starts a browser
InitializeLaunches ==
    /\ ~(ProbeRuns(scraper) /\ scraper.browser.id \in alive)
    /\ launched < MaxLaunch
    /\ \E att \in AttachOutcomes \ {"ok"}, lau \in LaunchOutcomes \ {"launchFail"} :
        \E b \in IF att = "connectFail" THEN {0} ELSE alive,
           pages \in IF att = "agentFail" THEN PagesKinds ELSE {"none"},
           icptOk \in IF lau = "ok" THEN BOOLEAN ELSE {TRUE},
           forceHeaded \in BOOLEAN, userHeadless \in BOOLEAN :
            LET r == initialize(scraper, FALSE, att, b, pages, icptOk,
                                lau, ErrNoChrome, launched + 1)
            IN  /\ scraper' = r.s
                /\ outcome' = InitializeDid(FALSE, att, lau,
                                  LaunchHeadless(forceHeaded, userHeadless), r.out)
    /\ alive' = alive \cup {launched + 1}
    /\ launched' = launched + 1

InitializeCall ==
    \/ InitializeReuses
    \/ InitializeAttaches
    \/ InitializeFails
    \/ InitializeLaunches

\* what close() calls on the browser it holds
CloseDoes(s) ==
    IF s.browser = NoBrowser THEN "nothing"
    ELSE IF CloseDisconnects(s) THEN "disconnect" ELSE "close"

\* browser.close() ends the browser process; browser.disconnect() does not
CloseBrowser(s) ==
    alive' = IF CloseDoes(s) = "close" THEN alive \ {s.browser.id} ELSE alive

CloseCall ==
    /\ CloseBrowser(scraper)
    /\ scraper' = Closed(scraper)
    /\ outcome' = Did("close", [held |-> scraper.browser, does |-> CloseDoes(scraper)],
                      Ok("close"))
    /\ UNCHANGED launched

ResetCall ==
    /\ CloseBrowser(scraper)
    /\ scraper' = ResetDone(scraper)
    /\ outcome' = Did("reset", [held |-> scraper.browser, does |-> CloseDoes(scraper)],
                      Ok("reset"))
    /\ UNCHANGED launched

\* a request of the page reaches the handler
RequestObserved ==
    /\ scraper.intercepting
    /\ scraper.page \in alive
    /\ \E url \in Urls, hdr \in HeaderSets, logThrows \in BOOLEAN :
        LET r == OnRequest(scraper, url, hdr, logThrows)
        IN  /\ logThrows => IncludesApi(url)
            /\ scraper' = r.s
            /\ outcome' = Did("request",
                              [matched |-> \E c \in DOMAIN API_ENDPOINTS :
                                              matchesEndpoint(url, API_ENDPOINTS[c]),
                               logThrows |-> logThrows],
                              [kind |-> r.fate])
    /\ UNCHANGED <<alive, launched>>

BrowserDies ==
    /\ \E b \in alive : alive' = alive \ {b}
    /\ UNCHANGED <<scraper, launched, outcome>>

\* somebody starts a browser with the debug port open
ExtBrowserStarts ==
    /\ ExtBrowser \notin alive
    /\ alive' = alive \cup {ExtBrowser}
    /\ UNCHANGED <<scraper, launched, outcome>>

Next ==
    /\ \/ InitializeCall
       \/ CloseCall
       \/ ResetCall
       \/ RequestObserved
       \/ BrowserDies
       \/ ExtBrowserStarts
    /\ UNCHANGED <<extVars, aggVars, headless, arg, storeVars>>

Spec == Init /\ [][Next]_vars

(***************************************************************************)
(* SpecFetch: ensureLoggedIn() and fetchUsageData() applied to a scraper   *)
(* that holds a page, over the answers the page and the endpoints can      *)
(* give.  Neither call writes a field of the scraper.                      *)
(***************************************************************************)
WithPage(captured, credits, overage) ==
    [NewScraper EXCEPT
        !.browser = Handle(1, "launch"), !.page = 1,
        !.isInitialized = TRUE, !.intercepting = TRUE,
        !.apiEndpoint = IF captured THEN <<"api", "organizations", "o1", "usage">>
                        ELSE NoUrl,
        !.apiHeaders = IF captured THEN CapturedHeaders("h1") ELSE NoHeaders,
        !.creditsEndpoint =
            IF credits THEN <<"api", "organizations", "o1", "prepaid", "credits">>
            ELSE NoUrl,
        !.overageEndpoint =
            IF overage THEN <<"api", "organizations", "o1", "overage_spend_limit">>
            ELSE NoUrl]

InitFetch ==
    /\ scraper \in {WithPage(c, p, o) : c \in BOOLEAN, p \in BOOLEAN, o \in BOOLEAN}
                   \cup {NewScraper}
    /\ alive \in {{}, {1}}
    /\ launched = 1
    /\ outcome = Did("none", <<>>, NoOutcome)
    /\ IdleExt
    /\ IdleAgg
    /\ headless = {}
    /\ arg = NoArg
    /\ IdleStore

EnsureLoggedInCall ==
    /\ \E nav \in NavOutcomes, onAuth \in BOOLEAN, login \in LoginOutcomes :
        /\ (scraper.page # NoPage /\ scraper.page \notin alive) => nav = "closed"
        /\ scraper.page = NoPage => nav = "ok"
        /\ ~(scraper.page # NoPage /\ nav = "ok") => ~onAuth
        /\ ~onAuth => login = "done"
        /\ outcome' = Did("ensureLoggedIn",
                          [nav |-> nav, onAuth |-> onAuth, login |-> login],
                          ensureLoggedIn(scraper, nav, onAuth, login))
    /\ UNCHANGED <<scraper, alive, launched>>

FetchIn(nav, captured, replay, text) ==
    [nav |-> nav, captured |-> captured, replay |-> replay, text |-> text]

\* fetchUsageData() whose navigation fails, or that is called without a page
FetchNavFails ==
    /\ \E nav \in NavOutcomes :
        /\ (scraper.page # NoPage /\ scraper.page \notin alive) => nav = "closed"
        /\ scraper.page # NoPage => nav # "ok"
        /\ scraper.page = NoPage => nav = "ok"
        /\ outcome' = Did("fetchUsageData",
                          FetchIn(IF scraper.page = NoPage THEN "nopage" ELSE nav,
                                  ApiCaptured(scraper), "ok", <<>>),
                          fetchUsageData(scraper, nav, "ok", JNull, JNull, JNull,
                                         <<>>, Now))
    /\ UNCHANGED <<scraper, alive, launched>>

\* fetchUsageData() whose replay of the captured endpoint answers
FetchByApi ==
    /\ scraper.page \in alive
    /\ ApiCaptured(scraper)
    /\ \E payload \in Payloads, credits \in CreditsPayloads,
          overage \in OveragePayloads :
        /\ scraper.creditsEndpoint = NoUrl => credits = JNull
        /\ scraper.overageEndpoint = NoUrl => overage = JNull
        /\ outcome' = Did("fetchUsageData",
                          FetchIn("ok", TRUE, "ok", <<>>),
                          fetchUsageData(scraper, "ok", "ok", payload, credits,
                                         overage, <<>>, Now))
    /\ UNCHANGED <<scraper, alive, launched>>

\* fetchUsageData() that reads the page text: no endpoint captured, or the
\* replay failed
FetchByHtml ==
    /\ scraper.page \in alive
    /\ \E replay \in ReplayOutcomes, text \in PageTexts :
        /\ IF ApiCaptured(scraper) THEN replay # "ok" ELSE replay = "ok"
        /\ outcome' = Did("fetchUsageData",
                          FetchIn("ok", ApiCaptured(scraper), replay, text),
                          fetchUsageData(scraper, "ok", replay, JNull, JNull,
                                         JNull, text, Now))
    /\ UNCHANGED <<scraper, alive, launched>>

PageBrowserDies ==
    /\ \E b \in alive : alive' = alive \ {b}
    /\ UNCHANGED <<scraper, launched, outcome>>

NextFetch ==
    /\ \/ EnsureLoggedInCall
       \/ FetchNavFails
       \/ FetchByApi
       \/ FetchByHtml
       \/ PageBrowserDies
    /\ UNCHANGED <<extVars, aggVars, headless, arg, storeVars>>

SpecFetch == InitFetch /\ [][NextFetch]_vars

(***************************************************************************)
(* SpecExt: the extension after activate().  Each caller of fetchUsage()   *)
(* is a process that moves from one await to the next; the steps of two    *)
(* invocations interleave at the awaits, as they do on the event loop.     *)
(* pc[p] names the await invocation p is suspended at:                     *)
(*   "connect"  puppeteer.connect          "attach"  browser.pages() ..    *)
(*   "launch"   puppeteer.launch           "newPage" browser.newPage() ..  *)
(*   "login"    ensureLoggedIn()           "fetch"   fetchUsageData()      *)
(* fetchUsage() calls initialize() only when isInitialized is false, so    *)
(* the liveness probe of initialize(), which needs isInitialized to be     *)
(* true, is never run from here.                                           *)
(***************************************************************************)
InitExt ==
    /\ scraper = NewScraper
    /\ alive \in {{}, {ExtBrowser}}
    /\ launched = 0
    /\ outcome = Did("none", <<>>, NoOutcome)
    /\ pc = [p \in Procs |-> "idle"]
    /\ startupPending = TRUE
    /\ provider = [isFirstFetch |-> TRUE, usageData |-> JNull]
    /\ timerOn = TRUE
    /\ fetches = 0
    /\ IdleAgg
    /\ headless = {}
    /\ arg = NoArg
    /\ IdleStore

\* what starts invocation p
Triggered(p) ==
    CASE p = "startup" -> startupPending
      [] p = "timer" -> timerOn
      [] p = "command" -> timerOn

\* if (this.isFirstFetch) ensureLoggedIn() else straight to fetchUsageData()
AfterInitialize(prov) == IF prov.isFirstFetch THEN "login" ELSE "fetch"

\* if (!this.scraper.isInitialized) await this.scraper.initialize(...)
FirstAwait(s, prov) == IF ~s.isInitialized THEN "connect" ELSE AfterInitialize(prov)

Goto(p, where) == pc' = [pc EXCEPT ![p] = where]

\* the catch of fetchUsage(): the error is shown, usageData is kept
FetchUsageFails(p) == Goto(p, "idle")

FetchUsageStarts(p) ==
    /\ pc[p] = "idle"
    /\ Triggered(p)
    /\ fetches < MaxFetches
    /\ fetches' = fetches + 1
    /\ startupPending' = IF p = "startup" THEN FALSE ELSE startupPending
    /\ Goto(p, FirstAwait(scraper, provider))
    /\ UNCHANGED <<scraper, alive, launched, outcome, provider, timerOn>>

\* puppeteer.connect answers: this.browser is set, or the attach is given up
\* and puppeteer.launch is called
ConnectAnswers(p) ==
    /\ pc[p] = "connect"
    /\ \/ \E b \in alive : scraper' = ConnectOk(scraper, b) /\ Goto(p, "attach")
       \/ scraper' = scraper /\ Goto(p, "launch")
    /\ UNCHANGED <<alive, launched, outcome, provider, timerOn, startupPending, fetches>>

\* the rest of tryConnectToExisting, on what this.browser is by now
AttachFinishes(p) ==
    /\ pc[p] = "attach"
    /\ \E att \in AttachOutcomes \ {"connectFail"}, pages \in PagesKinds,
          icptOk \in BOOLEAN :
        /\ att = "pagesFail" => pages = "none" /\ icptOk
        /\ att = "agentFail" => icptOk
        /\ (scraper.browser = NoBrowser \/ scraper.browser.id \notin alive)
                => att = "pagesFail"
        /\ LET r == AttachRest(scraper, att, pages, icptOk)
           IN  /\ r.connected => r.s.page \in alive
               /\ scraper' = r.s
               /\ Goto(p, IF r.connected THEN AfterInitialize(provider) ELSE "launch")
    /\ UNCHANGED <<alive, launched, outcome, provider, timerOn, startupPending, fetches>>

\* puppeteer.launch throws: initialize() throws into the catch of fetchUsage()
LaunchThrows(p) ==
    /\ pc[p] = "launch"
    /\ \E err \in LaunchErrors : LaunchError(err).kind = "error" /\ FetchUsageFails(p)
    /\ UNCHANGED <<scraper, alive, launched, outcome, provider, timerOn,
                   startupPending, fetches>>

\* puppeteer.launch starts a browser: this.browser is set
LaunchAnswers(p) ==
    /\ pc[p] = "launch"
    /\ launched < MaxLaunch
    /\ launched' = launched + 1
    /\ alive' = alive \cup {launched + 1}
    /\ scraper' = LaunchOk(scraper, launched + 1)
    /\ Goto(p, "newPage")
    /\ UNCHANGED <<outcome, provider, timerOn, startupPending, fetches>>

\* the rest of the launch half, on what this.browser is by now
LaunchFinishes(p) ==
    /\ pc[p] = "newPage"
    /\ \E lau \in LaunchOutcomes \ {"launchFail"}, icptOk \in BOOLEAN :
        /\ lau # "ok" => icptOk
        /\ (scraper.browser = NoBrowser \/ scraper.browser.id \notin alive)
                => lau = "newPageFail"
        /\ LET r == LaunchRest(scraper, lau, icptOk)
           IN  /\ scraper' = r.s
               /\ IF r.out.kind = "ok"
                  THEN Goto(p, AfterInitialize(provider))
                  ELSE FetchUsageFails(p)
    /\ UNCHANGED <<alive, launched, outcome, provider, timerOn, startupPending,
                   fetches>>

\* await this.scraper.ensureLoggedIn(); this.isFirstFetch = false
LoginFinishes(p) ==
    /\ pc[p] = "login"
    /\ \E nav \in NavOutcomes, onAuth \in BOOLEAN, login \in LoginOutcomes :
        /\ (scraper.page # NoPage /\ scraper.page \notin alive) => nav = "closed"
        /\ scraper.page = NoPage => nav = "ok"
        /\ ~(scraper.page # NoPage /\ nav = "ok") => ~onAuth
        /\ ~onAuth => login = "done"
        /\ LET r == ensureLoggedIn(scraper, nav, onAuth, login)
           IN  IF r.kind = "ok"
               THEN /\ provider' = [provider EXCEPT !.isFirstFetch = FALSE]
                    /\ Goto(p, "fetch")
               ELSE /\ provider' = provider
                    /\ FetchUsageFails(p)
    /\ UNCHANGED <<scraper, alive, launched, outcome, timerOn, startupPending,
                   fetches>>

\* what the usage page and the usage endpoint give in SpecExt
ExtPayloads == {MkObj([five_hour |-> JObj([utilization |-> JNum(45)])])}
ExtTexts == {<<D(62), W("%"), W(" "), W("used")>>, <<W("Usage"), W("NL"), W("Plan")>>}

\* this.usageData = await this.scraper.fetchUsageData()
FetchFinishes(p) ==
    /\ pc[p] = "fetch"
    /\ \E nav \in NavOutcomes, replay \in ReplayOutcomes, payload \in ExtPayloads,
          text \in ExtTexts :
        /\ (scraper.page # NoPage /\ scraper.page \notin alive) => nav = "closed"
        /\ scraper.page = NoPage => nav = "ok"
        /\ scraper.page \in alive => nav \in {"ok", "timeout"}
        /\ ~(nav = "ok" /\ scraper.page # NoPage /\ ApiCaptured(scraper))
                => replay = "ok"
        /\ LET r == fetchUsageData(scraper, nav, replay, payload, JNull, JNull,
                                   text, Now)
           IN  IF r.kind = "value"
               THEN /\ provider' = [provider EXCEPT !.usageData = r.value]
                    /\ Goto(p, "idle")
               ELSE /\ provider' = provider
                    /\ FetchUsageFails(p)
    /\ UNCHANGED <<scraper, alive, launched, outcome, timerOn, startupPending,
                   fetches>>

\* the usage page asks for the usage endpoint while it is intercepted
ExtRequestObserved ==
    /\ scraper.intercepting
    /\ scraper.page \in alive
    /\ scraper' = OnRequest(scraper, <<"api", "organizations", "o1", "usage">>,
                            "h1", FALSE).s
    /\ UNCHANGED <<alive, launched, outcome, pc, provider, timerOn,
                   startupPending, fetches>>

ExtBrowserDies ==
    /\ \E b \in alive : alive' = alive \ {b}
    /\ UNCHANGED <<scraper, launched, outcome, pc, provider, timerOn,
                   startupPending, fetches>>

\* deactivate(): clearInterval, then scraper.close()
Deactivate ==
    /\ timerOn
    /\ timerOn' = FALSE
    /\ CloseBrowser(scraper)
    /\ scraper' = Closed(scraper)
    /\ UNCHANGED <<launched, outcome, pc, provider, startupPending, fetches>>

NextExt ==
    /\ \/ \E p \in Procs :
            \/ FetchUsageStarts(p)
            \/ ConnectAnswers(p)
            \/ AttachFinishes(p)
            \/ LaunchThrows(p)
            \/ LaunchAnswers(p)
            \/ LaunchFinishes(p)
            \/ LoginFinishes(p)
            \/ FetchFinishes(p)
       \/ ExtRequestObserved
       \/ ExtBrowserDies
       \/ Deactivate
    /\ UNCHANGED <<aggVars, headless, arg, storeVars>>

SpecExt == InitExt /\ [][NextExt]_vars

(***************************************************************************)
(* SpecAgg: loadUsageRecords over two JSONL files that hold at most        *)
(* MaxRecords lines together, with and without a time window.              *)
(***************************************************************************)
UsageOf(in, out, cc, cr) ==
    MkObj([input_tokens |-> in, output_tokens |-> out,
           cache_creation_input_tokens |-> cc, cache_read_input_tokens |-> cr])

RecordLine(id, requestId, ts, model, usage, isError) ==
    [json |-> TRUE,
     value |-> MkObj([message |-> MkObj([id |-> id, model |-> JStr(model),
                                         usage |-> usage]),
                      requestId |-> requestId,
                      timestamp |-> ts,
                      isApiErrorMessage |-> isError])]

MalformedLine == [json |-> FALSE]

\* two records of one key, two records whose ids differ and hold a "-",
\* a record without ids or timestamp, and three lines that are not records
Lines ==
    { RecordLine(JText(<<"a">>), JText(<<"b">>), JTime(Now),
                 "claude", UsageOf(JNum(10), JNum(5), JUndef, JUndef), JUndef),
      RecordLine(JText(<<"a">>), JText(<<"b">>), JTime(Now + 100),
                 "claude", UsageOf(JNum(7), JNum(3), JNum(2), JNum(1)), JUndef),
      RecordLine(JText(<<"a", "-", "b">>), JText(<<"c">>), JTime(Now),
                 "claude", UsageOf(JNum(1), JNum(1), JNum(0), JUndef), JUndef),
      RecordLine(JText(<<"a">>), JText(<<"b", "-", "c">>), JTime(Now - 100),
                 "claude", UsageOf(JNum(2), JNum(2), JUndef, JUndef), JBool(FALSE)),
      RecordLine(JUndef, JUndef, JUndef,
                 "claude", UsageOf(JNum(4), JNum(4), JUndef, JUndef), JUndef),
      RecordLine(JText(<<"c">>), JText(<<"c">>), JTime(Now),
                 "<synthetic>", UsageOf(JNum(0), JNum(0), JUndef, JUndef), JUndef),
      RecordLine(JText(<<"b">>), JText(<<"b">>), JTime(Now),
                 "claude", UsageOf(JNum(9), JNum(9), JUndef, JUndef), JBool(TRUE)),
      MalformedLine }

InitAgg ==
    /\ \E n1 \in 0..MaxRecords : \E n2 \in 0..(MaxRecords - n1) :
            files \in [1..n1 -> Lines] \X [1..n2 -> Lines]
    /\ since \in {0, Now}
    /\ aggregate = NoAggregate
    /\ IdleScraper
    /\ outcome = Did("none", <<>>, NoOutcome)
    /\ IdleExt
    /\ headless = {}
    /\ arg = NoArg
    /\ IdleStore

\* a load that drops every record an earlier load has returned, as a loader
\* whose seenHashes outlived the call would
LoadKeepingSeen ==
    /\ aggregate' =
            IF aggregate = NoAggregate \/ aggregate.messageCount = 0
            THEN loadUsageRecords(files, since)
            ELSE loadUsageRecords(<<>>, since)
    /\ outcome' = Did("loadUsageRecords",
                      [before |-> aggregate,
                       appended |-> <<>>,
                       repeated |-> outcome.op = "loadUsageRecords"],
                      Ok("loadUsageRecords"))
    /\ UNCHANGED <<files, since>>

\* loadUsageRecords(sinceTimestamp); outcome keeps the aggregate of the call
\* before and, when exactly one line was written since that call, the line
LoadUsageRecordsCall ==
    /\ aggregate' = loadUsageRecords(files, since)
    /\ outcome' = Did("loadUsageRecords",
                      [before |-> aggregate,
                       appended |-> IF outcome.op = "append" /\ outcome.in.afterLoad
                                    THEN <<outcome.in.line>> ELSE <<>>,
                       repeated |-> outcome.op = "loadUsageRecords"],
                      Ok("loadUsageRecords"))
    /\ UNCHANGED <<files, since>>

\* Claude Code writes one more line at the end of a session file
RecordAppended ==
    /\ Len(files[1]) + Len(files[2]) < MaxRecords
    /\ \E f \in 1..2, line \in Lines :
        /\ files' = [files EXCEPT ![f] = Append(files[f], line)]
        /\ outcome' = Did("append",
                          [line |-> line,
                           afterLoad |-> outcome.op = "loadUsageRecords"],
                          NoOutcome)
    /\ UNCHANGED <<since, aggregate>>

NextAgg ==
    /\ \/ LoadUsageRecordsCall
       \/ RecordAppended
    /\ UNCHANGED <<scraper, alive, launched, extVars, headless, arg, storeVars>>

SpecAgg == InitAgg /\ [][NextAgg]_vars

(***************************************************************************)
(* SpecCycle: UsageDataProvider.fetchUsage() and updateTokensFromJsonl()   *)
(* as whole runs, one at a time, on one scraper and one provider, with     *)
(* requests, browser death and dispose() in between.  headless says which  *)
(* running browsers show no window.                                        *)
(***************************************************************************)
\* what the page shows after a redirect to the login page
LoginPageText == <<W("Log"), W(" "), W("in"), W(" "), W("to"), W(" "), W("Claude")>>

ErrWriteFailed == <<"EACCES", "permission", "denied">>

\* if (!this.scraper.isInitialized) await this.scraper.initialize(!hasSession)
CycleInitialize(s, a) ==
    IF s.isInitialized
    THEN [s |-> s, out |-> Ok("initialize")]
    ELSE initialize(s, FALSE, a.att, a.b, a.pages, a.icptOk, a.lau, a.err, a.nb)

\* a catch that passes the error of the web scrape on to the caller
WebScrapeRethrown(prov, error) ==
    [prov |-> prov, out |-> Thrown("fetchUsage", error.msg)]

\* catch (error) { webScrapeFailed = true; ... } and the warning after it:
\* usageData is kept, the call returns
WebScrapeCaught(prov, error) ==
    [prov |-> prov, out |-> [op |-> "fetchUsage", kind |-> "warned", msg |-> error.msg]]

\* fetchUsage(): a holds what the environment answers during the call
fetchUsage(prov, s, a) ==
    LET i == CycleInitialize(s, a)
        l == IF i.out.kind = "error" THEN i.out
             ELSE IF prov.isFirstFetch
                  THEN ensureLoggedIn(i.s, a.nav1, a.onAuth, a.login)
                  ELSE Ok("ensureLoggedIn")
        prov1 == IF l.kind # "error"
                 THEN [prov EXCEPT !.isFirstFetch = FALSE]
                 ELSE prov
        f == IF l.kind = "error" THEN l
             ELSE fetchUsageData(i.s, a.nav2, a.replay, a.payload, JNull, JNull,
                                 a.text, Now)
        prov2 == IF f.kind = "value"
                 THEN [prov1 EXCEPT !.usageData = f.value]
                 ELSE prov1
        h == IF f.kind = "value" /\ ~a.historyOk
             THEN Thrown("addDataPoint", ErrWriteFailed)
             ELSE f
    IN  IF h.kind = "error"
        THEN [s |-> i.s] @@ WebScrapeCaught(prov2, h)
        ELSE [s |-> i.s, prov |-> prov2, out |-> Ok("fetchUsage")]

\* puppeteer.launch is called and starts a browser
Launches(s, a) == ~s.isInitialized /\ a.att # "ok" /\ a.lau # "launchFail"

\* what puppeteer.connect and puppeteer.launch can answer to initialize():
\* each fails at its first call, fails at page.setUserAgent, or succeeds
InitializeAnswers ==
    IF scraper.isInitialized
    THEN {[att |-> "connectFail", b |-> ExtBrowser, pages |-> "none",
           icptOk |-> TRUE, lau |-> "launchFail"]}
    ELSE { x \in [att : AttachOutcomes \ {"pagesFail"}, b : alive \cup {ExtBrowser},
                  pages : {"claude", "none"}, icptOk : BOOLEAN,
                  lau : LaunchOutcomes \ {"newPageFail"}] :
            /\ x.att # "connectFail" => x.b \in alive
            /\ x.att = "connectFail" => x.b = ExtBrowser
            /\ x.pages = "none" <=> x.att \in {"connectFail", "pagesFail"}
            /\ x.att = "ok" => x.lau = "launchFail"
            /\ x.lau # "launchFail" => launched < MaxLaunch
            /\ ~(x.att = "ok" \/ x.lau = "ok") => x.icptOk }

\* what a navigation of the page can give: a page of a dead browser is closed
NavAnswers(page, up) ==
    IF page = NoPage THEN {"ok"}
    ELSE IF page \in up THEN {"ok", "timeout"} ELSE {"closed"}

\* the answers to ensureLoggedIn(), when it is called (checks); expired: the
\* claude.ai session of the browser's profile is not valid, so that the
\* usage page redirects to the login page
LoginAnswers(checks, page, up, expired) ==
    IF ~checks
    THEN {[nav1 |-> "ok", onAuth |-> FALSE, login |-> "done"]}
    ELSE UNION { IF nav = "ok" /\ expired /\ page # NoPage
                 THEN {[nav1 |-> nav, onAuth |-> TRUE, login |-> lo] :
                            lo \in LoginOutcomes}
                 ELSE {[nav1 |-> nav, onAuth |-> FALSE, login |-> "done"]} :
                 nav \in NavAnswers(page, up) }

\* the answers to fetchUsageData(), when it is called (reaches): an expired
\* session makes the replay fail and the page show the login form
FetchAnswers(reaches, page, captured, up, expired) ==
    LET unused == [nav2 |-> "ok", replay |-> "ok", text |-> LoginPageText,
                   historyOk |-> TRUE]
    IN  IF ~reaches \/ page = NoPage
        THEN {unused}
        ELSE UNION { IF nav # "ok"
                     THEN {[unused EXCEPT !.nav2 = nav]}
                     ELSE {[nav2 |-> nav, replay |-> "status500", text |-> tx,
                            historyOk |-> ho] :
                                tx \in IF expired THEN {LoginPageText} ELSE ExtTexts,
                                ho \in BOOLEAN}
                          \* the replay answers: the page text is not read
                          \cup {[nav2 |-> nav, replay |-> "ok", text |-> LoginPageText,
                                 historyOk |-> ho] :
                                ho \in IF captured /\ ~expired THEN BOOLEAN ELSE {}} :
                     nav \in NavAnswers(page, up) }

InitCycle ==
    /\ scraper = NewScraper
    /\ alive \in {{}, {ExtBrowser}}
    /\ headless \in SUBSET alive
    /\ arg = NoArg
    /\ IdleStore
    /\ launched = 0
    /\ outcome = Did("none", <<>>, NoOutcome)
    /\ IdleExt
    /\ files \in {<<>>, <<<<CHOOSE line \in Lines : KeptLine(line)
                                /\ InWindow(line.value, Now)>>>>}
    /\ since = Now
    \* activate() awaits the first updateTokensFromJsonl() before it
    \* registers the command and the timers
    /\ aggregate = loadUsageRecords(files, since)

\* one run of fetchUsage(), as the fetchNow command, the startup timeout and
\* the refresh timer start it
FetchUsageCall ==
    \E ini \in InitializeAnswers, expired \in BOOLEAN :
    \* hasExistingSession() counts in a launch only, and claudeUsage.headless
    \* in a launch that is not forced to show the window
    \E hasSession \in IF Launches(scraper, ini) THEN BOOLEAN ELSE {TRUE} :
    \E userHeadless \in IF Launches(scraper, ini) /\ hasSession THEN BOOLEAN ELSE {TRUE} :
        LET a0 == ini @@ [err |-> ErrNoChrome, nb |-> launched + 1,
                          payload |-> CHOOSE x \in ExtPayloads : TRUE]
            starts == Launches(scraper, a0)
            up == IF starts THEN alive \cup {a0.nb} ELSE alive
            hidden == IF starts /\ LaunchHeadless(~hasSession, userHeadless)
                      THEN headless \cup {a0.nb} ELSE headless
            i == CycleInitialize(scraper, a0)
            checks == provider.isFirstFetch /\ i.out.kind # "error"
        IN  \* a profile without cookies has no session
            /\ (starts /\ ~hasSession) => expired
            /\ \E lg \in LoginAnswers(checks, i.s.page, up, expired) :
                LET waits == checks /\ lg.onAuth
                    reaches == /\ i.out.kind # "error"
                               /\ checks =>
                                    ensureLoggedIn(i.s, lg.nav1, lg.onAuth,
                                                   lg.login).kind # "error"
                    stillExpired == expired /\ ~waits
                IN  \E fe \in FetchAnswers(reaches, i.s.page, ApiCaptured(i.s), up,
                                           stillExpired) :
                    LET r == fetchUsage(provider, scraper, a0 @@ lg @@ fe)
                        navigated == reaches /\ i.s.page # NoPage /\ fe.nav2 = "ok"
                    IN  /\ scraper' = r.s
                        /\ provider' = r.prov
                        /\ alive' = up
                        /\ launched' = IF starts THEN launched + 1 ELSE launched
                        /\ headless' = hidden
                        /\ outcome' =
                            Did("fetchUsage",
                                [icptFails |-> ~a0.icptOk,
                                 waits |-> waits,
                                 hiddenWait |-> waits /\ i.s.page \in hidden,
                                 redirected |-> waits \/ (navigated /\ stillExpired),
                                 replays |-> navigated /\ ApiCaptured(i.s)],
                                r.out)
    /\ UNCHANGED <<files, since, aggregate>>

\* a handler whose error leaves its try block
TokensErrorEscapes(error) == Thrown("updateTokensFromJsonl", error.msg)

\* catch (error) { diagnosticChannel.appendLine(...) } of updateTokensFromJsonl
TokensErrorCaught(error) == [op |-> "updateTokensFromJsonl", kind |-> "logged"]

\* updateTokensFromJsonl(): the aggregate of the last hour, then, when it has
\* tokens, the session tracker's update and the status bar; trackerOk: the
\* tracker can write its file
UpdateTokensCall ==
    /\ aggregate' = loadUsageRecords(files, since)
    /\ \E trackerOk \in BOOLEAN :
        outcome' =
            Did("updateTokensFromJsonl",
                [trackerOk |-> trackerOk, afterWarned |-> outcome.res.kind = "warned"],
                IF aggregate'.totalTokens > 0 /\ ~trackerOk
                THEN TokensErrorCaught(Thrown("saveData", ErrWriteFailed))
                ELSE Returned("updateTokensFromJsonl",
                              [shown |-> aggregate'.totalTokens > 0,
                               usageData |-> provider.usageData]))
    /\ UNCHANGED <<scraper, alive, launched, headless, provider, files, since>>

\* the usage page asks for the usage endpoint while it is intercepted
CycleRequestObserved ==
    /\ scraper.intercepting
    /\ scraper.page \in alive
    /\ scraper.apiEndpoint = NoUrl
    /\ scraper' = OnRequest(scraper, <<"api", "organizations", "o1", "usage">>,
                            "h1", FALSE).s
    /\ UNCHANGED <<alive, launched, headless, outcome, provider, aggVars>>

CycleBrowserDies ==
    /\ \E b \in alive : alive' = alive \ {b} /\ headless' = headless \ {b}
    /\ UNCHANGED <<scraper, launched, outcome, provider, aggVars>>

\* dispose() of the provider and deactivate(): this.scraper.close()
DisposeCall ==
    /\ scraper.browser # NoBrowser
    /\ CloseBrowser(scraper)
    /\ headless' = headless \cap alive'
    /\ scraper' = Closed(scraper)
    /\ outcome' = Did("close", <<>>, Ok("close"))
    /\ UNCHANGED <<launched, provider, aggVars>>

NextCycle ==
    /\ \/ FetchUsageCall
       \/ UpdateTokensCall
       \/ CycleRequestObserved
       \/ CycleBrowserDies
       \/ DisposeCall
    /\ UNCHANGED <<pc, startupPending, timerOn, fetches, arg, storeVars>>

SpecCycle == InitCycle /\ [][NextCycle]_vars

(***************************************************************************)
(* SpecCalc: the functions that only compute.  arg holds the arguments of  *)
(* one call, drawn by the initial state; the action of the function        *)
(* applies it and leaves what it returned in outcome.                      *)
(***************************************************************************)
\* what five_hour, seven_day and the per-model windows of a payload can be:
\* percentages, fractions, values outside 0..100, and no value
CalcWindows ==
    { JUndef,
      JObj([utilization |-> JNum(45)]),
      JObj([utilization |-> JNum(0), resets_at |-> JTime(Now + 9000)]),
      JObj([utilization |-> JFrac(45), resets_at |-> JTime(Now + 9000)]),
      JObj([utilization |-> JFrac(78)]),
      JObj([utilization |-> JNum(150)]) }

CalcOverage ==
    { JNull,
      JObj([is_enabled |-> JBool(TRUE), monthly_credit_limit |-> JNum(10000),
            used_credits |-> JNum(6300)]),
      JObj([is_enabled |-> JBool(TRUE), monthly_credit_limit |-> JNum(10000),
            used_credits |-> JNum(12000)]) }

ProcessApiResponseArgs ==
    { [op |-> "processApiResponse",
       apiResponse |-> MkObj([five_hour |-> a, seven_day |-> b,
                              seven_day_sonnet |-> c, seven_day_opus |-> o]),
       creditsData |-> JNull,
       overageData |-> ov] :
        a \in CalcWindows, b \in CalcWindows,
        c \in {JUndef, JObj([utilization |-> JNum(30)])},
        o \in {JUndef, JObj([utilization |-> JNum(150)])},
        ov \in CalcOverage }

ProcessApiResponseCall ==
    /\ arg.op = "processApiResponse"
    /\ outcome' = Did("processApiResponse", arg,
                      Returned("processApiResponse",
                               processApiResponse(arg.apiResponse, arg.creditsData,
                                                  arg.overageData, Now)))
    /\ UNCHANGED arg

\* reset instants around the three boundaries: now, one hour, 24 and 25 hours
ResetOffsets ==
    {-60, 0, 1, 59, 60, 3599, 3600, 3660, 86340, 86399, 86400, 86460, 89999,
     90000, 180000}

CalculateResetTimeArgs ==
    { [op |-> "calculateResetTime", isoTimestamp |-> JTime(Now + d)] :
        d \in ResetOffsets }
    \cup { [op |-> "calculateResetTime", isoTimestamp |-> v] :
            v \in {JNull, JUndef} }

CalculateResetTimeCall ==
    /\ arg.op = "calculateResetTime"
    /\ outcome' = Did("calculateResetTime", arg,
                      Returned("calculateResetTime",
                               calculateResetTime(arg.isoTimestamp, Now)))
    /\ UNCHANGED arg

\* calculateResetClockTime(resetTime) of utils.js at the clock reading now.
\* resetTime.match(/(\d+)c/): the digits of the first place where digits
\* are directly followed by the letter c, or null (-1)
StartsWith(tok, c) ==
    tok.w \in (CASE c = "d" -> {"d", "days"}
                 [] c = "h" -> {"h", "hours"}
                 [] c = "m" -> {"m", "min"})

MatchUnit(text, c) ==
    LET at == {i \in 1..(Len(text) - 1) :
                    IsDigits(text[i]) /\ StartsWith(text[i + 1], c)}
    IN  IF at = {} THEN -1 ELSE text[Least(at)].n

Placeholder == <<W("??:??")>>

\* `${hour}:${minute}` of the minute m counted from today's midnight
ClockText(m) == <<D((m % 1440) \div 60), W(":"), D(m % 60)>>

\* `${dayName} ${date} `: the day is written as the number of days from today
DayText(m) == <<W("day"), D(m \div 1440), W(" ")>>

\* a value that is not a string has no match method: the TypeError is caught
calculateResetClockTime(resetTime, now) ==
    IF resetTime.t # "text" THEN Placeholder
    ELSE LET days == MatchUnit(resetTime.v, "d")
             hours == MatchUnit(resetTime.v, "h")
             minutes == MatchUnit(resetTime.v, "m")
             totalMinutes == (IF days # -1 THEN days * 24 * 60 ELSE 0)
                             + (IF hours # -1 THEN hours * 60 ELSE 0)
                             + (IF minutes # -1 THEN minutes ELSE 0)
             resetDate == ((now \div 60) % 1440) + totalMinutes
         IN  IF totalMinutes >= 24 * 60
             THEN DayText(resetDate) \o ClockText(resetDate)
             ELSE ClockText(resetDate)

ResetTexts ==
    { Unknown, Soon, <<>>, <<W("NaN"), W("m")>>,
      <<D(45), W("m")>>,
      <<D(2), W("h"), W(" "), D(30), W("m")>>,
      <<D(1), W("d"), W(" "), D(4), W("h")>>,
      <<D(3), W(" "), W("hours")>> }

CalculateResetClockTimeArgs ==
    { [op |-> "calculateResetClockTime", resetTime |-> v] :
        v \in {JNull, JUndef} \cup {JText(x) : x \in ResetTexts} }

CalculateResetClockTimeCall ==
    /\ arg.op = "calculateResetClockTime"
    /\ outcome' = Did("calculateResetClockTime", arg,
                      Returned("calculateResetClockTime",
                               calculateResetClockTime(arg.resetTime, Now)))
    /\ UNCHANGED arg

\* payloads for getNestedValue: leaves 0, false and null, a nested object,
\* a number where an object is expected, an empty object and null
NestedObjects ==
    { MkObj([five_hour |->
                MkObj([utilization |-> JNum(0), resets_at |-> JNull,
                       flag |-> JBool(FALSE),
                       inner |-> MkObj([x |-> JNum(3)])])]),
      MkObj([five_hour |-> MkObj([utilization |-> JNum(45)])]),
      MkObj([five_hour |-> JNum(5)]),
      MkObj([five_hour |-> JNull]),
      MkObj([five_hour |-> JUndef]),
      JNull }

\* path.split('.') of the dot-paths; <<>> is the empty path
NestedPaths ==
    { <<"five_hour", "utilization">>, <<"five_hour", "flag">>,
      <<"five_hour", "resets_at">>, <<"five_hour", "inner", "x">>,
      <<"five_hour", "missing">>, <<"five_hour", "utilization", "deep">>,
      <<"seven_day", "utilization">>, <<"five_hour">>, <<>> }

GetNestedValueArgs ==
    { [op |-> "getNestedValue", obj |-> o, path |-> p, defaultValue |-> d] :
        o \in NestedObjects, p \in NestedPaths, d \in {JNull, JNum(7)} }

\* answers of the overage endpoint: amounts in cents, each field may be
\* missing, the spend limit may be off or 0
ProcessOverageDataArgs ==
    { [op |-> "processOverageData",
       overageData |-> MkObj([is_enabled |-> e, monthly_credit_limit |-> l,
                              used_credits |-> u])] :
        e \in {JUndef, JBool(TRUE), JBool(FALSE)},
        l \in {JUndef, JNum(0), JNum(300), JNum(10000)},
        u \in {JUndef, JNum(0), JNum(100), JNum(6300), JNum(6380), JNum(12000)} }
    \cup { [op |-> "processOverageData", overageData |-> JNull] }

ProcessOverageDataCall ==
    /\ arg.op = "processOverageData"
    /\ outcome' = Did("processOverageData", arg,
                      Returned("processOverageData",
                               processOverageData(arg.overageData)))
    /\ UNCHANGED arg

\* lines of a session file: two valid records, a malformed line, records
\* without a numeric input_tokens or output_tokens, a synthetic record, a
\* record flagged as API error, and the JSON text null
ValidLine1 ==
    RecordLine(JText(<<"a">>), JText(<<"r1">>), JTime(Now),
               "claude", UsageOf(JNum(10), JNum(5), JUndef, JUndef), JUndef)
ValidLine2 ==
    RecordLine(JText(<<"b">>), JText(<<"r2">>), JTime(Now + 100),
               "claude", UsageOf(JNum(7), JNum(3), JNum(2), JNum(1)), JUndef)

ParseLines ==
    { ValidLine1, ValidLine2, MalformedLine,
      RecordLine(JText(<<"c">>), JText(<<"r3">>), JTime(Now),
                 "claude", UsageOf(JUndef, JNum(5), JNum(8), JUndef), JUndef),
      RecordLine(JText(<<"d">>), JText(<<"r4">>), JTime(Now),
                 "claude", UsageOf(JNum(6), JNull, JUndef, JUndef), JUndef),
      RecordLine(JText(<<"e">>), JText(<<"r5">>), JTime(Now),
                 "<synthetic>", UsageOf(JNum(4), JNum(4), JUndef, JUndef), JUndef),
      RecordLine(JText(<<"f">>), JText(<<"r6">>), JTime(Now),
                 "claude", UsageOf(JNum(9), JNum(9), JUndef, JUndef), JBool(TRUE)),
      [json |-> TRUE, value |-> JNull] }

ParseFiles == UNION { [1..n -> ParseLines] : n \in 0..MaxRecords }

ParseJsonlFileArgs ==
    { [op |-> "parseJsonlFile", file |-> f] : f \in ParseFiles }

ParseJsonlFileCall ==
    /\ arg.op = "parseJsonlFile"
    /\ outcome' = Did("parseJsonlFile", arg,
                      Returned("parseJsonlFile", parseJsonlFile(arg.file)))
    /\ UNCHANGED arg

\* values of CLAUDE_CONFIG_DIR: unset, one path, two paths, two paths in
\* the other order with blanks around them, an empty entry, blanks only
XDir == <<"/x">>
YDir == <<"/y">>

EnvPaths ==
    { <<>>, <<"/x">>, <<"/x", ",", "/y">>, <<"/y", ",", " ", "/x", " ">>,
      <<"/x", ",", ",", "/y">>, <<" ">> }

DiskPaths == {XDir, YDir, StandardDir, LegacyDir}

Dir(fs) == [kind |-> "dir", files |-> fs]
RegularFile == [kind |-> "file", files |-> <<>>]

FindClaudeDataDirectoryArgs ==
    { [op |-> "findClaudeDataDirectory", envPath |-> e, disk |-> d] :
        e \in EnvPaths, d \in [DiskPaths -> {NoEntry, RegularFile, Dir(<<>>)}] }

\* the constructor has stored getClaudeConfigPaths() in claudeConfigPaths
FindClaudeDataDirectoryCall ==
    /\ arg.op = "findClaudeDataDirectory"
    /\ outcome' = Did("findClaudeDataDirectory", arg,
                      Returned("findClaudeDataDirectory",
                               findClaudeDataDirectory(
                                   getClaudeConfigPaths(arg.envPath), arg.disk)))
    /\ UNCHANGED arg

\* disks for a load: every path missing, an empty directory or a directory
\* with one record; and the legacy directory alone, with one file of lines
OnlyLegacy(file) ==
    [p \in DiskPaths |-> IF p = LegacyDir THEN Dir(<<file>>) ELSE NoEntry]

LoadUsageRecordsArgs ==
    { [op |-> "loadUsageRecords", envPath |-> e, disk |-> d,
       sinceTimestamp |-> 0] :
        e \in {<<>>, <<"/x">>},
        d \in [DiskPaths -> {NoEntry, Dir(<<>>), Dir(<< <<ValidLine1>> >>)}] }
    \cup
    { [op |-> "loadUsageRecords", envPath |-> <<>>, disk |-> OnlyLegacy(f),
       sinceTimestamp |-> s] :
        f \in ParseFiles, s \in {0, Now} }

LoadUsageRecordsInCall ==
    /\ arg.op = "loadUsageRecords"
    /\ outcome' = Did("loadUsageRecords", arg,
                      Returned("loadUsageRecords",
                               loadUsageRecordsIn(getClaudeConfigPaths(arg.envPath),
                                                  arg.disk, arg.sinceTimestamp)))
    /\ UNCHANGED arg

GetNestedValueCall ==
    /\ arg.op = "getNestedValue"
    /\ outcome' = Did("getNestedValue", arg,
                      Returned("getNestedValue",
                               getNestedValue(arg.obj, arg.path, arg.defaultValue)))
    /\ UNCHANGED arg

\* the reset instants shown in the status bar: those of ResetOffsets, and two
\* that are more than 24 hours away and not on a full hour
ShownOffsets == ResetOffsets \cup {91800, 176340}

ShowResetClockArgs ==
    { [op |-> "showResetClock", isoTimestamp |-> JTime(Now + d)] :
        d \in ShownOffsets }

\* usageData.resetTime = calculateResetTime(resets_at) of processApiResponse,
\* then calculateResetClockTime(usageData.resetTime) of the status bar
ShowResetClockCall ==
    /\ arg.op = "showResetClock"
    /\ LET resetTime == calculateResetTime(arg.isoTimestamp, Now)
       IN  outcome' = Did("showResetClock", arg,
                          Returned("showResetClock",
                                   [resetTime |-> resetTime,
                                    clock |-> calculateResetClockTime(
                                                  JText(resetTime), Now)]))
    /\ UNCHANGED arg

InitCalc ==
    /\ \/ arg \in ProcessApiResponseArgs
       \/ arg \in CalculateResetTimeArgs
       \/ arg \in CalculateResetClockTimeArgs
       \/ arg \in GetNestedValueArgs
       \/ arg \in ProcessOverageDataArgs
       \/ arg \in ParseJsonlFileArgs
       \/ arg \in FindClaudeDataDirectoryArgs
       \/ arg \in LoadUsageRecordsArgs
       \/ arg \in ShowResetClockArgs
    /\ IdleScraper
    /\ IdleExt
    /\ IdleAgg
    /\ headless = {}
    /\ IdleStore

NextCalc ==
    /\ \/ ProcessApiResponseCall
       \/ CalculateResetTimeCall
       \/ CalculateResetClockTimeCall
       \/ GetNestedValueCall
       \/ ProcessOverageDataCall
       \/ ParseJsonlFileCall
       \/ FindClaudeDataDirectoryCall
       \/ LoadUsageRecordsInCall
       \/ ShowResetClockCall
    /\ UNCHANGED <<scraper, alive, launched, extVars, aggVars, headless, storeVars>>

SpecCalc == InitCalc /\ [][NextCalc]_vars

(***************************************************************************)
(* SpecTrack and SpecTokens: the SessionTracker and its users.  A session   *)
(* is kept without its timestamps, description, activities and file        *)
(* changes; the session file is the data that JSON.parse gives back, so    *)
(* every loadData() yields objects of its own: a change to                 *)
(* this.currentSession reaches the file only where the code saves a        *)
(* data.sessions that holds that very object.  SpecTrack calls the methods *)
(* one at a time; SpecTokens runs updateTokensFromJsonl() for the watcher  *)
(* and the poll, and startSession() for the command, split at the file     *)
(* reads, so that the runs interleave as they do on the event loop.        *)
(***************************************************************************)
MaxSessions == 2    \* sessions in the session file

\* new Date().toISOString().split('T')[0]: the calls of one behaviour fall on
\* one day
Today == "today"

\* `session-${date}-${sessionNumber}`; padStart(3, '0') keeps distinct
\* numbers distinct
SessionId(date, sessionNumber) == <<"session", date, sessionNumber>>

EmptyData ==
    [sessions |-> <<>>, totals |-> [totalSessions |-> 0, totalTokensUsed |-> 0]]

\* loadData(): the parsed file, or the empty structure when it cannot be read
loadData(file) == IF file = NoFile THEN EmptyData ELSE file

RECURSIVE SumCurrent(_)
SumCurrent(sessions) ==
    IF sessions = <<>> THEN 0
    ELSE Head(sessions).current + SumCurrent(Tail(sessions))

\* saveData(data) as the last statement of a method: the file is written, or
\* writeFile rejects and the method throws
Saved(op, t, currentSession, data, writeOk, value) ==
    [t |-> [currentSession |-> currentSession,
            file |-> IF writeOk THEN data ELSE t.file],
     out |-> IF writeOk THEN Returned(op, value) ELSE Thrown(op, ErrWriteFailed)]

\* startSession(description) from the loaded data on
startSession(t, data, writeOk) ==
    LET session == [sessionId |-> SessionId(Today, Len(data.sessions) + 1),
                    current |-> 0, limit |-> 200000, remaining |-> 200000]
        sessions == Append(data.sessions, session)
    IN  Saved("startSession", t, session,
              [sessions |-> sessions,
               totals |-> [data.totals EXCEPT !.totalSessions = Len(sessions)]],
              writeOk, session)

\* const session = this.currentSession || data.sessions[data.sessions.length - 1]
HasSession(t, data) == t.currentSession # NoSession \/ Len(data.sessions) > 0

SessionOf(t, data) ==
    IF t.currentSession # NoSession THEN t.currentSession
    ELSE data.sessions[Len(data.sessions)]

\* the assignments to the session's fields: they change the held object when
\* there is one, else the last loaded one; changed is the session after them
ChangeSession(t, data, changed) ==
    IF t.currentSession # NoSession
    THEN [currentSession |-> changed, sessions |-> data.sessions]
    ELSE [currentSession |-> NoSession,
          sessions |-> [data.sessions EXCEPT ![Len(data.sessions)] = changed]]

NoSessionWarned(op) == [op |-> op, kind |-> "warned"]

\* updateTokens(tokensUsed, tokenLimit) from the loaded data on
updateTokens(t, data, tokensUsed, tokenLimit, writeOk) ==
    IF ~HasSession(t, data)
    THEN [t |-> t, out |-> NoSessionWarned("updateTokens")]
    ELSE LET session == SessionOf(t, data)
             c == ChangeSession(t, data,
                                [session EXCEPT !.current = tokensUsed,
                                                !.limit = tokenLimit,
                                                !.remaining = tokenLimit - tokensUsed])
         IN  Saved("updateTokens", t, c.currentSession,
                   [sessions |-> c.sessions,
                    totals |-> [data.totals EXCEPT
                                   !.totalTokensUsed = SumCurrent(c.sessions)]],
                   writeOk, tokensUsed)

\* resetSessionTokens() from the loaded data on
resetSessionTokens(t, data, writeOk) ==
    IF ~HasSession(t, data)
    THEN [t |-> t, out |-> NoSessionWarned("resetSessionTokens")]
    ELSE LET session == SessionOf(t, data)
             c == ChangeSession(t, data,
                                [session EXCEPT !.current = 0,
                                                !.remaining = session.limit])
         IN  Saved("resetSessionTokens", t, c.currentSession,
                   [sessions |-> c.sessions, totals |-> data.totals],
                   writeOk, 0)

\* endSession() from the loaded data on: the end time is not kept in the
\* model, so the data is saved as loaded; this.currentSession = null follows
\* the save
endSession(t, data, writeOk) ==
    IF ~HasSession(t, data)
    THEN [t |-> t, out |-> NoSessionWarned("endSession")]
    ELSE Saved("endSession", t,
               IF writeOk THEN NoSession ELSE t.currentSession,
               data, writeOk, 0)

\* getCurrentSession()
getCurrentSession(t) ==
    IF t.currentSession # NoSession THEN t.currentSession
    ELSE LET data == loadData(t.file)
         IN  IF Len(data.sessions) > 0
             THEN data.sessions[Len(data.sessions)] ELSE NoSession

\* the arguments a caller of updateTokens passes
TokenCounts == {0, 15}
TokenLimits == {200000, 20}

\* activate(): sessionTracker = new SessionTracker() over the file that an
\* earlier activation left
TrackerConstructed ==
    /\ \A p \in TrackProcs : run[p].at = "idle"
    /\ tracker.currentSession # NoSession
    /\ tracker' = NewTracker(tracker.file)
    /\ outcome' = Did("constructor", <<>>, Ok("constructor"))
    /\ UNCHANGED <<run, aggVars>>

\* the recorded call of a method on the tracker
Called(op, in, r) ==
    /\ tracker' = r.t
    /\ outcome' = Did(op, in, r.out)
    /\ UNCHANGED <<run, aggVars>>

TrackerStartSession ==
    /\ Len(loadData(tracker.file).sessions) < MaxSessions
    /\ \E writeOk \in BOOLEAN :
        Called("startSession", [by |-> "client"],
               startSession(tracker, loadData(tracker.file), writeOk))

TrackerUpdateTokens ==
    \E tokensUsed \in TokenCounts, tokenLimit \in TokenLimits, writeOk \in BOOLEAN :
        Called("updateTokens",
               [tokensUsed |-> tokensUsed, tokenLimit |-> tokenLimit],
               updateTokens(tracker, loadData(tracker.file),
                            tokensUsed, tokenLimit, writeOk))

TrackerResetSessionTokens ==
    \E writeOk \in BOOLEAN :
        Called("resetSessionTokens", <<>>,
               resetSessionTokens(tracker, loadData(tracker.file), writeOk))

TrackerEndSession ==
    \E writeOk \in BOOLEAN :
        Called("endSession", <<>>,
               endSession(tracker, loadData(tracker.file), writeOk))

\* the one line Claude Code writes in this specification: 15 tokens at Now
TrackLine ==
    RecordLine(JText(<<"a">>), JText(<<"b">>), JTime(Now),
               "claude", UsageOf(JNum(10), JNum(5), JUndef, JUndef), JUndef)

LineWritten ==
    /\ files = <<<<>>, <<>>>>
    /\ files' = <<<<TrackLine>>, <<>>>>
    /\ UNCHANGED <<since, aggregate, outcome, tracker, run>>

\* Date.now() - 60 * 60 * 1000 of getCurrentSessionUsage(): an hour later the
\* line is older than the window
HourPasses ==
    /\ since = Now - 100
    /\ since' = Now + 200
    /\ UNCHANGED <<files, aggregate, outcome, tracker, run>>

At(p, at) == [run EXCEPT ![p].at = at]

\* updateTokensFromJsonl(), line 93: the aggregate of the last hour; with no
\* tokens the run is over
TokensUsageLoaded(p) ==
    /\ p \in {"watcher", "poll"}
    /\ run[p].at = "idle"
    /\ aggregate' = loadUsageRecords(files, since)
    /\ IF aggregate'.totalTokens > 0
       THEN /\ run' = [run EXCEPT ![p] = [at |-> "getCurrentSession",
                                          totalTokens |-> aggregate'.totalTokens,
                                          data |-> NoFile]]
            /\ UNCHANGED outcome
       ELSE /\ outcome' = Did("updateTokensFromJsonl",
                              [by |-> p, totalTokens |-> 0],
                              Ok("updateTokensFromJsonl"))
            /\ UNCHANGED run
    /\ UNCHANGED <<files, since, tracker>>

\* line 106: getCurrentSession(), and the branch on its result
TokensSessionLooked(p) ==
    /\ run[p].at = "getCurrentSession"
    /\ run' = At(p, IF getCurrentSession(tracker) = NoSession
                    THEN "startSession" ELSE "updateTokens")
    /\ UNCHANGED <<tracker, outcome, aggVars>>

\* the startNewSession command, after the input box: line 198
CommandStarts ==
    /\ run["command"].at = "idle"
    /\ run' = At("command", "startSession")
    /\ UNCHANGED <<tracker, outcome, aggVars>>

\* startSession(), line 49: the file is read
StartSessionLoaded(p) ==
    /\ run[p].at = "startSession"
    /\ Len(loadData(tracker.file).sessions) < MaxSessions
    /\ run' = [run EXCEPT ![p].at = "startSessionSave",
                          ![p].data = loadData(tracker.file)]
    /\ UNCHANGED <<tracker, outcome, aggVars>>

\* startSession(), lines 51-73: the session is built from the data read and
\* the file written; an error ends the run in the caller's catch
StartSessionSaved(p) ==
    /\ run[p].at = "startSessionSave"
    /\ \E writeOk \in BOOLEAN :
        LET r == startSession(tracker, run[p].data, writeOk)
        IN  /\ tracker' = r.t
            /\ outcome' = Did("startSession", [by |-> p], r.out)
            /\ run' = [run EXCEPT ![p] =
                          IF p = "command" \/ ~writeOk THEN IdleRun
                          ELSE [@ EXCEPT !.at = "updateTokens", !.data = NoFile]]
    /\ UNCHANGED aggVars

\* updateTokens(), line 82: the file is read
UpdateTokensLoaded(p) ==
    /\ run[p].at = "updateTokens"
    /\ run' = [run EXCEPT ![p].at = "updateTokensSave",
                          ![p].data = loadData(tracker.file)]
    /\ UNCHANGED <<tracker, outcome, aggVars>>

\* updateTokens(usage.totalTokens, 200000), lines 85-102, and the end of the
\* updateTokensFromJsonl() run
UpdateTokensSaved(p) ==
    /\ run[p].at = "updateTokensSave"
    /\ \E writeOk \in BOOLEAN :
        LET r == updateTokens(tracker, run[p].data, run[p].totalTokens, 200000, writeOk)
        IN  /\ tracker' = r.t
            /\ outcome' = Did("updateTokensFromJsonl",
                              [by |-> p, totalTokens |-> run[p].totalTokens],
                              IF writeOk THEN Ok("updateTokensFromJsonl")
                              ELSE TokensErrorCaught(r.out))
    /\ run' = [run EXCEPT ![p] = IdleRun]
    /\ UNCHANGED aggVars

InitTrack ==
    /\ IdleStore
    /\ IdleAgg
    /\ IdleScraper
    /\ IdleExt
    /\ headless = {}
    /\ arg = NoArg

NextTrack ==
    /\ \/ TrackerConstructed
       \/ TrackerStartSession
       \/ TrackerUpdateTokens
       \/ TrackerResetSessionTokens
       \/ TrackerEndSession
    /\ UNCHANGED <<scraper, alive, launched, extVars, headless, arg, history>>

SpecTrack == InitTrack /\ [][NextTrack]_vars

InitTokens ==
    /\ tracker = NewTracker(NoFile)
    /\ run = [p \in TrackProcs |-> IdleRun]
    /\ history = NoHistory
    /\ files = <<<<>>, <<>>>>
    /\ since = Now - 100
    /\ aggregate = NoAggregate
    /\ IdleScraper
    /\ IdleExt
    /\ headless = {}
    /\ arg = NoArg

NextTokens ==
    /\ \/ TrackerConstructed
       \/ LineWritten
       \/ HourPasses
       \/ CommandStarts
       \/ \E p \in TrackProcs :
            \/ TokensUsageLoaded(p)
            \/ TokensSessionLooked(p)
            \/ StartSessionLoaded(p)
            \/ StartSessionSaved(p)
            \/ UpdateTokensLoaded(p)
            \/ UpdateTokensSaved(p)
    /\ UNCHANGED <<scraper, alive, launched, extVars, headless, arg, history>>

SpecTokens == InitTokens /\ [][NextTokens]_vars

(***************************************************************************)
(* SpecHist: UsageHistory over its file in os.tmpdir().  A timestamp is    *)
(* the number of the data point among the stored ones: history.clock       *)
(* counts the addDataPoint() calls that saved their point.                 *)
(***************************************************************************)
MaxPoints == 27     \* data points stored in one behaviour

\* this.maxDataPoints
maxDataPoints == 24

EmptyHistory == [dataPoints |-> <<>>]

\* UsageHistory.loadData(): the parsed file, or the empty structure
loadHistoryData(file) == IF file = NoFile THEN EmptyHistory ELSE file

\* Array.prototype.slice(-n) of an array longer than n
SliceLast(s, n) == SubSeq(s, Len(s) - n + 1, Len(s))

\* an addDataPoint that cuts with slice(0, maxDataPoints): the oldest points
\* stay and the new one is dropped once the history is full
AddDataPointKeepingOldest(data, timestamp, fiveHourUsage) ==
    LET dataPoint == [timestamp |-> timestamp, fiveHour |-> fiveHourUsage,
                      sevenDay |-> JNull]
        pushed == Append(data.dataPoints, dataPoint)
    IN  [data |-> [dataPoints |-> IF Len(pushed) > maxDataPoints
                                  THEN SubSeq(pushed, 1, maxDataPoints)
                                  ELSE pushed],
         dataPoint |-> dataPoint]

\* addDataPoint(fiveHourUsage) from the loaded data on: the data to save and
\* the data point returned
addDataPoint(data, timestamp, fiveHourUsage) ==
    LET dataPoint == [timestamp |-> timestamp, fiveHour |-> fiveHourUsage,
                      sevenDay |-> JNull]
        pushed == Append(data.dataPoints, dataPoint)
    IN  [data |-> [dataPoints |-> IF Len(pushed) > maxDataPoints
                                  THEN SliceLast(pushed, maxDataPoints)
                                  ELSE pushed],
         dataPoint |-> dataPoint]

\* the usage percentage of a fetch; what is kept does not depend on it
UsagePercents == {JNum(40)}

AddDataPointCall ==
    /\ history.clock < MaxPoints
    /\ \E fiveHourUsage \in UsagePercents, writeOk \in BOOLEAN :
        LET r == addDataPoint(loadHistoryData(history.file),
                              history.clock + 1, fiveHourUsage)
        IN  /\ history' = IF writeOk
                          THEN [file |-> r.data, clock |-> history.clock + 1]
                          ELSE history
            /\ outcome' = Did("addDataPoint",
                              [before |-> loadHistoryData(history.file).dataPoints],
                              IF writeOk THEN Returned("addDataPoint", r.dataPoint)
                              ELSE Thrown("addDataPoint", ErrWriteFailed))

\* the operating system empties its temporary directory
HistoryFileLost ==
    /\ history.file # NoFile
    /\ history' = [history EXCEPT !.file = NoFile]
    /\ outcome' = Did("unlink", <<>>, NoOutcome)

InitHist ==
    /\ IdleStore
    /\ IdleAgg
    /\ IdleScraper
    /\ IdleExt
    /\ headless = {}
    /\ arg = NoArg

NextHist ==
    /\ \/ AddDataPointCall
       \/ HistoryFileLost
    /\ UNCHANGED <<scraper, alive, launched, extVars, aggVars, headless, arg,
                   tracker, run>>

SpecHist == InitHist /\ [][NextHist]_vars

(***************************************************************************)
(* Properties of the scraper's lifecycle and of the request handler, under *)
(* Spec.                                                                   *)
(***************************************************************************)

\* C1: close() calls browser.close() only on a browser that this scraper
\* launched and browser.disconnect() only on a browser that it reached by
\* attach; the browser that was running before is never terminated.
C1_CloseRespectsOwnership ==
    outcome.op = "close" =>
        /\ outcome.in.does = "close" => outcome.in.held.how = "launch"
        /\ outcome.in.does = "disconnect" => outcome.in.held.how = "connect"
        /\ outcome.in.does = "close" => outcome.in.held.id # ExtBrowser

\* C3: once an endpoint of a category is captured, its url and headers stay
\* as they are in every step that is not a reset().
C3_FirstWriterWins ==
    [][outcome'.op # "reset" =>
        /\ scraper.apiEndpoint # NoUrl =>
                /\ scraper'.apiEndpoint = scraper.apiEndpoint
                /\ scraper'.apiHeaders = scraper.apiHeaders
        /\ scraper.creditsEndpoint # NoUrl =>
                scraper'.creditsEndpoint = scraper.creditsEndpoint
        /\ scraper.overageEndpoint # NoUrl =>
                scraper'.overageEndpoint = scraper.overageEndpoint]_vars

\* C8: every request that reaches the handler is continued, whether or not
\* it matches an endpoint category and whether or not the handler's own
\* processing fails.
C8_EveryRequestProceeds ==
    outcome.op = "request" => outcome.res.kind = "continued"

\* the scraper holds a session and its browser answers browser.version()
SessionAnswers == ProbeRuns(scraper) /\ scraper.browser.id \in alive

\* C14: initialize() on a scraper whose session answers the liveness probe
\* returns at once: no attach, no launch, and no field of the scraper, no
\* browser and no launch count changes.
C14_InitializeReusesLiveSession ==
    [][(scraper.isInitialized /\ scraper.browser # NoBrowser
            /\ scraper.browser.id \in alive /\ InitializeCall) =>
        /\ scraper' = scraper
        /\ alive' = alive
        /\ launched' = launched
        /\ outcome' = InitializeDid(TRUE, "none", "none", FALSE, Ok("initialize"))]_vars

\* an initialize() was answered by the probe on a session that had captured
\* the usage endpoint
C14_Witness ==
    /\ outcome.op = "initialize"
    /\ outcome.in.skip
    /\ SessionAnswers
    /\ scraper.apiEndpoint # NoUrl

\* C15: initialize() launches only after the attach of the same call failed;
\* a successful attach starts no browser and leaves the session attached
\* (isConnectedBrowser), a successful launch leaves it owned.
C15_AttachBeforeLaunch ==
    /\ []((outcome.op = "initialize" /\ ~outcome.in.skip) =>
            /\ outcome.in.lau # "none" => outcome.in.att \in AttachOutcomes \ {"ok"}
            /\ outcome.in.att = "ok" =>
                /\ outcome.in.lau = "none"
                /\ scraper.isInitialized
                /\ scraper.isConnectedBrowser
                /\ scraper.browser.how = "connect"
            /\ outcome.in.lau = "ok" =>
                /\ scraper.isInitialized
                /\ ~scraper.isConnectedBrowser
                /\ scraper.browser.how = "launch")
    /\ [][launched' # launched =>
            /\ outcome'.op = "initialize"
            /\ outcome'.in.att \in AttachOutcomes \ {"ok"}
            /\ outcome'.in.lau # "none"]_vars
    /\ [][(InitializeCall /\ outcome'.in.att = "ok") =>
            launched' = launched /\ alive' = alive]_vars

\* an attach succeeded on a scraper that had launched a browser in an
\* earlier call, whose attach had failed
C15_Witness ==
    /\ outcome.op = "initialize"
    /\ outcome.in.att = "ok"
    /\ launched > 0
    /\ scraper.isConnectedBrowser

IsFetch == outcome.op = "fetchUsageData"
Text62Used == <<D(62), W("%"), W(" "), W("used")>>

\* the replay of a captured endpoint was made and failed
ReplayFailed ==
    IsFetch /\ outcome.in.nav = "ok" /\ outcome.in.captured /\ outcome.in.replay # "ok"

\* the page text was read
HtmlRan ==
    IsFetch /\ outcome.in.nav = "ok" /\ (~outcome.in.captured \/ outcome.in.replay # "ok")

\* C4: a failed replay of the captured usage endpoint is not an error of
\* fetchUsageData(): the result is the one the HTML fallback gives for the
\* page text, and "62% used" without a reset phrase gives 62 and "Unknown".
C4_ReplayFailureFallsBack ==
    ReplayFailed =>
        /\ outcome.res.kind = "error" => outcome.res.msg = MsgLayout
        /\ outcome.res.kind = "value" =>
                /\ "rawData" \notin DOMAIN outcome.res.value
                /\ outcome.res.value.usagePercent = HtmlUsagePercent(outcome.in.text)
        /\ outcome.in.text = Text62Used =>
                outcome.res = Returned("fetchUsageData",
                                       [usagePercent |-> JNum(62),
                                        resetTime |-> Unknown])

C4_Witness ==
    /\ ReplayFailed
    /\ outcome.in.replay = "status500"
    /\ outcome.in.text = Text62Used
    /\ outcome.res.kind = "value"

\* the text holds digits, "%", optional blanks and "used" in a row
HasPercentUsed(text) ==
    \E i \in 1..Len(text), j \in 1..Len(text) :
        /\ IsDigits(text[i])
        /\ i + 1 < j
        /\ text[i + 1].w = "%"
        /\ \A k \in (i + 2)..(j - 1) : IsWs(text[k])
        /\ IsUsed(text[j])

\* C5: when the HTML fallback runs on a text without the percentage pattern
\* the call throws the layout error, which is none of the other errors of
\* the cycle; no snapshot is returned.
C5_NoPercentageIsLayoutError ==
    (HtmlRan /\ ~HasPercentUsed(outcome.in.text)) =>
        /\ outcome.res = Thrown("fetchUsageData", MsgLayout)
        /\ MsgLayout \notin {MsgTooLong, MsgLoadFailed, MsgLoginTimeout, MsgProcessFailed}

C5_Witness ==
    /\ HtmlRan
    /\ outcome.in.text = <<W("Usage"), W("NL"), W("Plan")>>
    /\ outcome.res.kind = "error"

\* the payload has no value at group.field
Absent(payload, group, field) == Prop(Prop(payload, group), field) = JUndef

\* C6: in a snapshot built from an API payload, a utilization that the
\* payload does not hold is null, and a missing resets_at gives no time.
C6_AbsentFieldsAreNull ==
    (IsFetch /\ outcome.res.kind = "value" /\ "rawData" \in DOMAIN outcome.res.value) =>
        LET snap == outcome.res.value
            raw == snap.rawData
        IN  /\ Absent(raw, "five_hour", "utilization") => snap.usagePercent = JNull
            /\ Absent(raw, "seven_day", "utilization") => snap.usagePercentWeek = JNull
            /\ Absent(raw, "seven_day_sonnet", "utilization") =>
                    snap.usagePercentSonnet = JNull
            /\ Absent(raw, "five_hour", "resets_at") => snap.resetTime = Unknown
            /\ Absent(raw, "seven_day", "resets_at") => snap.resetTimeWeek = Unknown

\* C7: a login wait that times out makes ensureLoggedIn() throw an error
\* that differs from the one a failed page load gives and from the layout
\* error.
C7_LoginTimeoutIsDistinct ==
    (outcome.op = "ensureLoggedIn" /\ outcome.in.nav = "ok" /\ outcome.in.onAuth
        /\ outcome.in.login = "timeout") =>
        /\ outcome.res.kind = "error"
        /\ outcome.res.msg # MsgLayout
        /\ outcome.res # ensureLoggedIn(scraper, "timeout", FALSE, "done")

(***************************************************************************)
(* Properties of the callers of fetchUsage(), under SpecExt.               *)
(***************************************************************************)
Navigating == {"login", "fetch"}

\* C9: a fetchUsage() that starts after an earlier fetch succeeded and while
\* the browser the scraper holds is no longer running does not go straight
\* to the navigation: it first probes and attaches or launches.
C9_FetchEnsuresLiveSession ==
    [][\A p \in Procs :
        (/\ pc[p] = "idle"
         /\ pc'[p] # "idle"
         /\ provider.usageData # JNull
         /\ scraper.browser # NoBrowser
         /\ scraper.browser.id \notin alive)
        => pc'[p] \notin Navigating]_vars

\* C10: at most one fetchUsage() invocation is in flight.
C10_FetchesAreSerialized ==
    Cardinality({p \in Procs : pc[p] # "idle"}) <= 1

(***************************************************************************)
(* Properties of the aggregation, under SpecAgg.                           *)
(***************************************************************************)
Loaded == aggregate.messageCount >= 0

RecordKey(record) == <<Prop(Prop(record, "message"), "id"), Prop(record, "requestId")>>

\* the keys of the lines of the files that are valid records
KeysIn(fs) ==
    {RecordKey(fs[f][i].value) :
        <<f, i>> \in {x \in (DOMAIN fs) \X (1..MaxRecords) :
                        x[2] <= Len(fs[x[1]]) /\ KeptLine(fs[x[1]][x[2]])}}

\* C2: in the result of loadUsageRecords no two records have the same
\* (messageId, requestId); the count is the number of these records, which
\* is at most the number of keys in the files, and every sum is the sum
\* over these records.
C2_OneRecordPerKey ==
    Loaded =>
        /\ \A i, j \in 1..Len(aggregate.records) :
                RecordKey(aggregate.records[i]) = RecordKey(aggregate.records[j])
                    => i = j
        /\ aggregate.messageCount = Len(aggregate.records)
        /\ aggregate.messageCount <= Cardinality(KeysIn(files))
        /\ aggregate.inputTokens = SumTokens(aggregate.records, "input_tokens")
        /\ aggregate.totalTokens =
                SumTokens(aggregate.records, "input_tokens")
                + SumTokens(aggregate.records, "output_tokens")
                + SumTokens(aggregate.records, "cache_creation_input_tokens")
                + SumTokens(aggregate.records, "cache_read_input_tokens")

\* two files, each with one record of the key (a, b): the first one counts
C2_Witness ==
    /\ Loaded
    /\ Len(files[1]) = 1
    /\ Len(files[2]) = 1
    /\ KeptLine(files[1][1])
    /\ KeptLine(files[2][1])
    /\ files[1][1] # files[2][1]
    /\ RecordKey(files[1][1].value) = RecordKey(files[2][1].value)
    /\ since = 0
    /\ aggregate.messageCount = 1
    /\ aggregate.records = <<files[1][1].value>>

LinesWithKey(fs, record) ==
    {x \in (DOMAIN fs) \X (1..MaxRecords) :
        /\ x[2] <= Len(fs[x[1]])
        /\ KeptLine(fs[x[1]][x[2]])
        /\ RecordKey(fs[x[1]][x[2]].value) = RecordKey(record)}

\* a load, a single appended line, a load: the line is a valid record inside
\* the window and no other valid record of the files has its key
AppendedNewRecord ==
    /\ outcome.op = "loadUsageRecords"
    /\ outcome.in.appended # <<>>
    /\ outcome.in.before # NoAggregate
    /\ KeptLine(outcome.in.appended[1])
    /\ since # 0 => InWindow(outcome.in.appended[1].value, since)
    /\ Cardinality(LinesWithKey(files, outcome.in.appended[1].value)) = 1

\* C20: after one new valid in-window record with a new (messageId,
\* requestId) was appended, totalTokens has grown by the record's four token
\* counts, the record count by 1, and the records counted before are
\* counted as before.
C20_AppendAddsOneRecord ==
    AppendedNewRecord =>
        /\ aggregate.totalTokens = outcome.in.before.totalTokens
                + calculateTotalTokens(outcome.in.appended[1].value)
        /\ aggregate.messageCount = outcome.in.before.messageCount + 1
        /\ \A i \in 1..Len(outcome.in.before.records) :
                \E j \in 1..Len(aggregate.records) :
                    aggregate.records[j] = outcome.in.before.records[i]

(***************************************************************************)
(* Properties of whole fetch cycles, under SpecCycle.                      *)
(***************************************************************************)
IsCycle == outcome.op = "fetchUsage"

\* C11: in every fetchUsage() run whose ensureLoggedIn() found the login
\* page and waited for the login, the browser of the page shows a window.
C11_LoginWaitIsVisible ==
    (IsCycle /\ outcome.in.waits) => ~outcome.in.hiddenWait

\* C12: every fetchUsage() run in which a navigation to the usage page ends
\* on the login page performs the login wait, on the first fetch and on any
\* later one.
C12_RedirectEntersLogin ==
    (IsCycle /\ outcome.in.redirected) => outcome.in.waits

\* the snapshot was built from the page text, not from an API answer
HtmlSnapshot(v) == v # JNull /\ "rawData" \notin DOMAIN v

IsCalc(op) == outcome.op = op

\* a percentage of a snapshot is null or a number from 0 to 100
InRange(v) ==
    \/ Nullish(v)
    \/ /\ v.t = "num"
       /\ IF "per" \in DOMAIN v THEN 0 <= v.v /\ v.v <= 10000
                                ELSE 0 <= v.v /\ v.v <= 100

\* C21: every percentage of a snapshot built from an API payload (the
\* five-hour, seven-day, Sonnet and Opus utilizations and
\* monthlyCredits.percent) is null or lies in 0..100, for every payload.
C21_PercentagesInRange ==
    IsCalc("processApiResponse") =>
        LET snap == outcome.res.value
        IN  /\ InRange(snap.usagePercent)
            /\ InRange(snap.usagePercentWeek)
            /\ InRange(snap.usagePercentSonnet)
            /\ InRange(snap.usagePercentOpus)
            /\ ~Nullish(snap.monthlyCredits) =>
                    /\ 0 <= snap.monthlyCredits.f.percent
                    /\ snap.monthlyCredits.f.percent <= 100

\* the utilization a payload reports for a window, as a percentage: a
\* fraction h / 100 is h percent
AsPercent(v) == IF "per" \in DOMAIN v THEN JNum(v.v) ELSE v

\* C22: a utilization that the usage endpoint reports as a fraction appears
\* in the snapshot as the corresponding percentage (0.45 gives 45, 0.78
\* gives 78).
C22_FractionBecomesPercent ==
    IsCalc("processApiResponse") =>
        LET five == Prop(Prop(outcome.in.apiResponse, "five_hour"), "utilization")
            seven == Prop(Prop(outcome.in.apiResponse, "seven_day"), "utilization")
        IN  /\ (five.t = "num" /\ "per" \in DOMAIN five) =>
                    outcome.res.value.usagePercent = AsPercent(five)
            /\ (seven.t = "num" /\ "per" \in DOMAIN seven) =>
                    outcome.res.value.usagePercentWeek = AsPercent(seven)

\* the days-and-hours representation of a time that is still to come
DaysHours(text) ==
    /\ Len(text) = 5
    /\ IsDigits(text[1]) /\ text[2] = W("d")
    /\ IsDigits(text[4]) /\ text[5] = W("h")

\* C23: calculateResetTime switches representation exactly at its
\* boundaries: a difference of 0 or less gives "Soon", less than 60 minutes
\* gives minutes only, from 60 minutes on hours and minutes, and from 24
\* hours (1440 minutes) on days and hours.
C23_RelativeTimeBoundaries ==
    (IsCalc("calculateResetTime") /\ outcome.in.isoTimestamp.t = "time") =>
        LET diff == outcome.in.isoTimestamp.v - Now
            text == outcome.res.value
        IN  /\ diff <= 0 => text = Soon
            /\ (0 < diff /\ diff < 3600) =>
                    text = <<D(diff \div 60), W("m")>>
            /\ (3600 <= diff /\ diff < 86400) =>
                    text = <<D(diff \div 3600), W("h"), W(" "),
                             D((diff % 3600) \div 60), W("m")>>
            /\ diff >= 86400 => DaysHours(text)

\* no day, hour or minute component can be parsed from the value
NoComponent(resetTime) ==
    \/ resetTime.t # "text"
    \/ \A c \in {"d", "h", "m"} : MatchUnit(resetTime.v, c) = -1

\* C24: calculateResetClockTime never throws, and for every input from
\* which no day, hour or minute component can be parsed ("Unknown", "Soon",
\* an empty string, null) it returns the placeholder, not a clock time.
C24_UnparseableGivesPlaceholder ==
    IsCalc("calculateResetClockTime") =>
        /\ outcome.res.kind = "value"
        /\ NoComponent(outcome.in.resetTime) => outcome.res.value = Placeholder

\* the dot-path is present in the payload: every segment is a key of the
\* object reached so far, and the leaf is neither null nor undefined
RECURSIVE PathPresent(_, _)
PathPresent(obj, path) ==
    /\ path # <<>>
    /\ obj.t = "obj"
    /\ Head(path) \in DOMAIN obj.f
    /\ IF Len(path) = 1 THEN obj.f[Head(path)].t \notin {"null", "undef"}
       ELSE PathPresent(obj.f[Head(path)], Tail(path))

RECURSIVE LeafAt(_, _)
LeafAt(obj, path) ==
    IF Len(path) = 1 THEN obj.f[Head(path)]
    ELSE LeafAt(obj.f[Head(path)], Tail(path))

SameValue(a, b) == a.t = b.t /\ a = b

\* C25: getNestedValue returns the exact leaf value when the dot-path is
\* present in the payload, 0 and false included, and returns the supplied
\* default, without throwing, when the object or a segment of the path is
\* missing or the leaf is null or undefined.
C25_NestedValueOrDefault ==
    IsCalc("getNestedValue") =>
        /\ outcome.res.kind = "value"
        /\ IF PathPresent(outcome.in.obj, outcome.in.path)
           THEN SameValue(outcome.res.value,
                          LeafAt(outcome.in.obj, outcome.in.path))
           ELSE SameValue(outcome.res.value, outcome.in.defaultValue)

\* the leaves 0 and false were returned although a default 7 was supplied
C25_Witness ==
    /\ IsCalc("getNestedValue")
    /\ outcome.in.path = <<"five_hour", "flag">>
    /\ outcome.in.defaultValue = JNum(7)
    /\ outcome.res.value.t = "bool"

\* the number of cents the payload gives at a key, 0 when it gives none
CentsAt(overageData, key) ==
    IF Nullish(Prop(overageData, key)) THEN 0 ELSE Prop(overageData, key).v

\* an amount in major units is the amount in cents divided by 100
IsHundredth(amount, cents) ==
    /\ amount.whole * 100 + amount.hundredths = cents
    /\ 0 <= amount.hundredths /\ amount.hundredths < 100

\* C26: the overage transform converts cents to major units (used / 100,
\* limit / 100) and computes percent as the rounded ratio 100 * used /
\* limit; a limit of 0 gives percent 0 and no error.
C26_OverageTransform ==
    (IsCalc("processOverageData") /\ ~Nullish(outcome.res.value)) =>
        LET used == CentsAt(outcome.in.overageData, "used_credits")
            limit == CentsAt(outcome.in.overageData, "monthly_credit_limit")
            out == outcome.res.value.f
        IN  /\ outcome.res.kind = "value"
            /\ IsHundredth(out.used, used)
            /\ IsHundredth(out.limit, limit)
            /\ limit = 0 => out.percent = 0
            /\ limit > 0 =>
                    /\ 2 * (out.percent * limit - 100 * used) <= limit
                    /\ 2 * (100 * used - out.percent * limit) <= limit

\* used 6300 and limit 10000 gave used 63.00, limit 100.00 and percent 63
C26_Witness ==
    /\ IsCalc("processOverageData")
    /\ ~Nullish(outcome.res.value)
    /\ CentsAt(outcome.in.overageData, "used_credits") = 6300
    /\ CentsAt(outcome.in.overageData, "monthly_credit_limit") = 10000
    /\ outcome.res.value.f.used = [whole |-> 63, hundredths |-> 0]
    /\ outcome.res.value.f.limit = [whole |-> 100, hundredths |-> 0]
    /\ outcome.res.value.f.percent = 63

\* how often the value x occurs in the sequence s
Occurrences(s, x) == Cardinality({i \in 1..Len(s) : s[i] = x})

WellFormed(line) == line.json

\* C27: a malformed line of a log file is skipped without aborting the
\* file: parseJsonlFile returns the records of all the other well-formed,
\* valid lines, wherever the malformed line stands.
C27_MalformedLineIsSkipped ==
    IsCalc("parseJsonlFile") =>
        LET file == outcome.in.file
            others == SelectSeq(file, WellFormed)
            values == [i \in 1..Len(file) |->
                            IF file[i].json THEN file[i].value ELSE JUndef]
        IN  /\ outcome.res.kind = "value"
            /\ outcome.res.value = parseJsonlFile(others)
            /\ \A line \in {ValidLine1, ValidLine2} :
                    Occurrences(outcome.res.value, line.value)
                        = Occurrences(values, line.value)

\* a malformed line stood between two valid lines, and both were returned
C27_Witness ==
    /\ IsCalc("parseJsonlFile")
    /\ outcome.in.file = <<ValidLine1, MalformedLine, ValidLine2>>
    /\ outcome.res.value = <<ValidLine1.value, ValidLine2.value>>

\* a record that must not be counted: no numeric input_tokens or
\* output_tokens, the synthetic model, or the API-error flag
ExcludedRecord(record) ==
    LET message == Prop(record, "message")
        usage == Prop(message, "usage")
        model == Prop(message, "model")
    IN  \/ Prop(usage, "input_tokens").t # "num"
        \/ Prop(usage, "output_tokens").t # "num"
        \/ model.t = "str" /\ model.v = "<synthetic>"
        \/ ~Falsy(Prop(record, "isApiErrorMessage"))

Countable(line) == ~(line.json /\ ExcludedRecord(line.value))

\* the disk without the lines that hold such records
WithoutExcluded(disk) ==
    [p \in DOMAIN disk |->
        [kind |-> disk[p].kind,
         files |-> [i \in 1..Len(disk[p].files) |->
                        SelectSeq(disk[p].files[i], Countable)]]]

\* C28: no record that lacks a numeric input-token or output-token field,
\* that is synthetic, or that is flagged as an API error contributes to an
\* aggregate: it is not among the records, and the aggregate is the one of
\* the files without it.
C28_ExcludedRecordsDoNotCount ==
    IsCalc("loadUsageRecords") =>
        LET agg == outcome.res.value
        IN  /\ \A i \in 1..Len(agg.records) : ~ExcludedRecord(agg.records[i])
            /\ agg = loadUsageRecordsIn(getClaudeConfigPaths(outcome.in.envPath),
                                        WithoutExcluded(outcome.in.disk),
                                        outcome.in.sinceTimestamp)

\* a file held a valid record and then two different records that must not
\* be counted, each with tokens of its own; only the valid record counted
C28_Witness ==
    /\ IsCalc("loadUsageRecords")
    /\ Len(outcome.in.disk[LegacyDir].files) = 1
    /\ Len(outcome.in.disk[LegacyDir].files[1]) = 3
    /\ LET file == outcome.in.disk[LegacyDir].files[1]
       IN  /\ file[1] = ValidLine1
           /\ file[2] # file[3]
           /\ \A i \in 2..3 :
                /\ file[i].json
                /\ ~Nullish(file[i].value)
                /\ ExcludedRecord(file[i].value)
                /\ calculateTotalTokens(file[i].value) > 0
    /\ outcome.res.value.messageCount = 1
    /\ outcome.res.value.totalTokens = 15

\* the entries of the override, in their order, for the values of EnvPaths
EnvEntries(envPath) ==
    CASE envPath = <<"/x">> -> <<XDir>>
      [] envPath = <<"/x", ",", "/y">> -> <<XDir, YDir>>
      [] envPath = <<"/y", ",", " ", "/x", " ">> -> <<YDir, XDir>>
      [] envPath = <<"/x", ",", ",", "/y">> -> <<XDir, YDir>>
      [] OTHER -> <<>>

\* the candidates in the order of the lookup, and those that are directories
Candidates(envPath) == EnvEntries(envPath) \o <<StandardDir, LegacyDir>>
Existing(envPath, disk) ==
    {i \in 1..Len(Candidates(envPath)) : disk[Candidates(envPath)[i]].kind = "dir"}

\* C29: when no candidate log directory exists, loadUsageRecords returns an
\* all-zero aggregate with zero records and raises no error.
C29_NoDirectoryGivesEmptyAggregate ==
    (IsCalc("loadUsageRecords")
        /\ Existing(outcome.in.envPath, outcome.in.disk) = {}) =>
        /\ outcome.res.kind = "value"
        /\ outcome.res.value.totalTokens = 0
        /\ outcome.res.value.inputTokens = 0
        /\ outcome.res.value.outputTokens = 0
        /\ outcome.res.value.cacheCreationTokens = 0
        /\ outcome.res.value.cacheReadTokens = 0
        /\ outcome.res.value.messageCount = 0
        /\ outcome.res.value.records = <<>>

\* no candidate existed while a directory that is no candidate held a
\* record, and the aggregate was empty
C29_Witness ==
    /\ IsCalc("loadUsageRecords")
    /\ outcome.in.envPath = <<"/x">>
    /\ Existing(outcome.in.envPath, outcome.in.disk) = {}
    /\ outcome.in.disk[YDir] = Dir(<< <<ValidLine1>> >>)
    /\ outcome.res.value.messageCount = 0

IsSaved(o, op) == o.op = op /\ o.res.kind = "value"

LastSession(data) == data.sessions[Len(data.sessions)]

\* C31: after startSession() and then updateTokens(n, limit) on the same
\* tracker, the session in the file has tokenUsage.current = n, limit = limit
\* and remaining = limit - n, and the session the tracker holds equals the
\* session in the file.
C31_UpdateReachesFileAndMemory ==
    [][(IsSaved(outcome, "startSession") /\ IsSaved(outcome', "updateTokens"))
       => LET persisted == LastSession(tracker'.file)
              n == outcome'.in.tokensUsed
              limit == outcome'.in.tokenLimit
          IN  /\ persisted.sessionId = outcome.res.value.sessionId
              /\ persisted.current = n
              /\ persisted.limit = limit
              /\ persisted.remaining = limit - n
              /\ tracker'.currentSession = persisted]_vars

\* a startSession() call of an asynchronous user p returns its session
StartSessionReturns(p) ==
    /\ run[p].at = "startSessionSave"
    /\ run'[p].at # "startSessionSave"
    /\ IsSaved(outcome', "startSession")
    /\ outcome'.in.by = p

PersistedIds(t) ==
    LET data == loadData(t.file)
    IN  { data.sessions[i].sessionId : i \in 1..Len(data.sessions) }

\* C32: no two sessions that startSession() creates share a sessionId, also
\* when the calls made for the file watcher, the poll and the startNewSession
\* command overlap: the session a call returns has an id that no session
\* saved before has.
C32_SessionIdsAreUnique ==
    [][\A p \in TrackProcs :
          StartSessionReturns(p)
              => outcome'.res.value.sessionId \notin PersistedIds(tracker)]_vars

StoredPoints == loadHistoryData(history.file).dataPoints

Deactivates == timerOn /\ ~timerOn'

LaunchedBrowsers == 1..launched

\* C34: when fetchUsage() invocations overlap on the one scraper, a browser
\* handle obtained by launch is never marked as connected
\* (isConnectedBrowser), so that the close() of deactivate() terminates every
\* browser the scraper launched: none is left running.
C34_LaunchedBrowsersAreClosed ==
    [][Deactivates
          => /\ (scraper.browser.how = "launch" => ~scraper.isConnectedBrowser)
             /\ alive' \cap LaunchedBrowsers = {}]_vars

\* C35: once deactivate() has completed, the refresh timer is cleared and the
\* scraper holds no open browser, and this stays so: no fetch that was
\* scheduled or started while the extension was active (the startup timer, a
\* fetch in flight) opens or keeps a browser afterwards.
C35_NoBrowserAfterDeactivate ==
    ~timerOn => scraper.browser = NoBrowser

(***************************************************************************)
(* Properties of the deduplication and of the order of the records, under  *)
(* SpecAgg.                                                                *)
(***************************************************************************)
\* the keys of the lines that are valid records inside the time window
WindowKeys(fs, sinceTimestamp) ==
    {RecordKey(fs[x[1]][x[2]].value) :
        x \in {y \in (DOMAIN fs) \X (1..MaxRecords) :
                /\ y[2] <= Len(fs[y[1]])
                /\ KeptLine(fs[y[1]][y[2]])
                /\ sinceTimestamp # 0
                        => InWindow(fs[y[1]][y[2]].value, sinceTimestamp)}}

\* C36: two valid records inside the window whose (messageId, requestId)
\* pairs differ are never merged, whatever characters the ids hold: every
\* such pair has its own record in the result.
C36_DistinctKeysAreKept ==
    Loaded =>
        \A key \in WindowKeys(files, since) :
            \E i \in 1..Len(aggregate.records) :
                RecordKey(aggregate.records[i]) = key

Reversed(s) == [i \in 1..Len(s) |-> s[Len(s) + 1 - i]]

\* two other orders of the lines of the files: the files found in the other
\* order, and the lines of each file in the opposite order
Reorderings(fs) ==
    { <<fs[2], fs[1]>>, <<Reversed(fs[1]), Reversed(fs[2])>> }

Totals(a) ==
    <<a.totalTokens, a.inputTokens, a.outputTokens, a.cacheCreationTokens,
      a.cacheReadTokens, a.messageCount>>

\* C37: the aggregate does not depend on the order in which the files are
\* found or on the order of the records in them: the same lines in another
\* order give the same token totals and the same record count.
C37_OrderDoesNotMatter ==
    outcome.op = "loadUsageRecords" =>
        \A fs \in Reorderings(files) :
            Totals(loadUsageRecords(fs, since)) = Totals(aggregate)

(***************************************************************************)
(* Properties of the token runs and of the totals of the session file,     *)
(* under SpecTokens and SpecTrack.                                         *)
(***************************************************************************)
\* C38: after every run of updateTokensFromJsonl() that ends without an
\* error, the tokenUsage.current of the current session (what
\* getCurrentSession() returns) equals the total of the last-hour aggregate
\* the run has computed, also when that total is 0.
C38_SessionShowsLastHour ==
    [][(/\ outcome' # outcome
        /\ outcome'.op = "updateTokensFromJsonl"
        /\ outcome'.res.kind = "ok"
        /\ getCurrentSession(tracker') # NoSession)
       => getCurrentSession(tracker').current = outcome'.in.totalTokens]_vars

\* C39: after any sequence of startSession, updateTokens, resetSessionTokens
\* and endSession calls the totals of the session file agree with its
\* sessions: totalSessions is the number of sessions and totalTokensUsed the
\* sum of their tokenUsage.current.
C39_TotalsAgreeWithSessions ==
    LET data == loadData(tracker.file)
    IN  /\ data.totals.totalSessions = Len(data.sessions)
        /\ data.totals.totalTokensUsed = SumCurrent(data.sessions)

(***************************************************************************)
(* Property of the two reset-time conversions in a row, under SpecCalc.    *)
(***************************************************************************)
\* the minute of the day a clock text names: its last three tokens are the
\* hour, ":" and the minute
MinuteOfDay(text) == text[Len(text) - 2].n * 60 + text[Len(text)].n

\* the minute of the day of the instant, seconds dropped
MinuteOfInstant(seconds) == (seconds \div 60) % 1440

\* C40: for every reset timestamp in the future, the clock time that
\* calculateResetClockTime derives from the relative string of
\* calculateResetTime is the reset instant to within one minute.
C40_ClockTimeIsResetInstant ==
    (IsCalc("showResetClock") /\ outcome.in.isoTimestamp.v > Now) =>
        LET shown == MinuteOfDay(outcome.res.value.clock)
            exact == MinuteOfInstant(outcome.in.isoTimestamp.v)
        IN  (shown - exact) % 1440 \in {0, 1, 1439}

====
